---- MODULE Spec2Model ----
(***************************************************************************)
(* A model of the path command interpreter of canto.js (src/canto.js):     *)
(* the Canto object's path state, the SVG path commands M m L l H h V v    *)
(* C c Q q S s T t A a Z z, svgpath(), beginPath(), reset() and the        *)
(* coordinate transforms.  The wrapped 2D context (this._) is external:    *)
(* the model records the calls it receives.                                *)
(***************************************************************************)
EXTENDS Integers, Sequences, FiniteSets, TLC

(***************************************************************************)
(* Bounds of the model.                                                    *)
(***************************************************************************)
\* Number of methods invoked on the object in the behaviours explored.
MaxSteps == 2
\* Largest numeric argument handed to the commands by the actions.
MaxArg == 1
\* Longest argument list used to exercise the argument count checks.
MaxLen == 7
\* Number of methods invoked on the object in the behaviours that explore
\* the session.
MaxCalls == 5

(***************************************************************************)
(* JavaScript values.  A coordinate is a number, undefined or NaN.  The    *)
(* model computes with integers; "approx" is a float produced by the arc   *)
(* trigonometry of ellipse(), which is near the integer n but is not       *)
(* known to be equal to it.  Any other float is kept as a term that names  *)
(* the computation f and the values it was computed of.                    *)
(***************************************************************************)
Num(n) == [k |-> "num", n |-> n]
Undefined == [k |-> "undefined", n |-> 0]
NaN == [k |-> "NaN", n |-> 0]
Approx(n) == [k |-> "approx", n |-> n]
Float(f, of) == [k |-> "float", f |-> f, of |-> of]

(***************************************************************************)
(* Numbers that are no whole numbers.  A JavaScript number is an IEEE 754  *)
(* binary64 float: sign, 53-bit significand and exponent.  Double(s, m, e) *)
(* is the number (-1)^s * m * 2^e, with m = 0 and e = 0 for zero and       *)
(* 2^52 <= m < 2^53 otherwise.  The significand is a natural number kept   *)
(* as the sequence of its digits in base 2^15, lowest digit first and the  *)
(* highest digit not 0, so that the products of two digits fit the         *)
(* integers of the model checker.  +, -, * and / round to the nearest      *)
(* float, ties to the even significand, as IEEE 754 has it.  The exponent  *)
(* is not bounded: the numbers computed here are far from overflow and     *)
(* underflow.  An intermediate result is named by binding it as the one    *)
(* element of a set, which computes it once.                               *)
(***************************************************************************)
Limb == 32768
LimbBits == 15

\* the one element of the set S
Only(S) == CHOOSE v \in S : TRUE

Pow2(n) == 2^n

\* the number of bits of the digit n
BitsOf(n) == CHOOSE i \in 0..LimbBits : n < Pow2(i) /\ (i = 0 \/ n >= Pow2(i - 1))

RECURSIVE BigOf(_)
\* the natural number n
BigOf(n) == IF n = 0 THEN <<>> ELSE <<n % Limb>> \o BigOf(n \div Limb)

\* digit i of a, digit 1 being the lowest, and 0 above the highest
Digit(a, i) == IF i >= 1 /\ i <= Len(a) THEN a[i] ELSE 0

\* the place of the highest digit of a that is not 0
Top(a) ==
    IF \A i \in 1..Len(a) : a[i] = 0 THEN 0
    ELSE CHOOSE i \in 1..Len(a) : a[i] # 0 /\ \A j \in (i + 1)..Len(a) : a[j] = 0

\* a without its highest digits that are 0
BigTrim(a) == Only({SubSeq(v, 1, Top(v)) : v \in {a}})

RECURSIVE AddFrom(_, _, _, _)
AddFrom(a, b, i, carry) ==
    IF i > Len(a) /\ i > Len(b) THEN (IF carry = 0 THEN <<>> ELSE <<carry>>)
    ELSE Only({<<sum % Limb>> \o AddFrom(a, b, i + 1, sum \div Limb) :
                  sum \in {Digit(a, i) + Digit(b, i) + carry}})

BigAdd(a, b) == Only({AddFrom(u, w, 1, 0) : u \in {a}, w \in {b}})

RECURSIVE SubFrom(_, _, _, _)
SubFrom(a, b, i, borrow) ==
    IF i > Len(a) THEN <<>>
    ELSE Only({<<(diff + Limb) % Limb>> \o SubFrom(a, b, i + 1, IF diff < 0 THEN 1 ELSE 0) :
                  diff \in {Digit(a, i) - Digit(b, i) - borrow}})

\* a - b for a >= b
BigSub(a, b) == BigTrim(Only({SubFrom(u, w, 1, 0) : u \in {a}, w \in {b}}))

\* the places where a and b, of the same length, differ
Differ(a, b) == {i \in 1..Len(a) : a[i] # b[i]}

\* -1, 0 or 1 as a is less than, equal to or greater than b
BigCmp(a, b) ==
    Only({IF Len(u) # Len(w) THEN (IF Len(u) < Len(w) THEN -1 ELSE 1)
          ELSE IF Differ(u, w) = {} THEN 0
          ELSE Only({IF u[i] < w[i] THEN -1 ELSE 1 :
                        i \in {CHOOSE i \in Differ(u, w) : \A j \in Differ(u, w) : j <= i}}) :
             u \in {a}, w \in {b}})

RECURSIVE MulLimbFrom(_, _, _, _)
MulLimbFrom(a, d, i, carry) ==
    IF i > Len(a) THEN (IF carry = 0 THEN <<>> ELSE <<carry>>)
    ELSE Only({<<prod % Limb>> \o MulLimbFrom(a, d, i + 1, prod \div Limb) :
                  prod \in {a[i] * d + carry}})

\* a * d for one digit d
BigMulLimb(a, d) == BigTrim(Only({MulLimbFrom(u, w, 1, 0) : u \in {a}, w \in {d}}))

\* a * 2^(15 n)
BigUpBy(a, n) == Only({IF v = <<>> THEN v ELSE [i \in 1..n |-> 0] \o v : v \in {a}})

RECURSIVE MulFrom(_, _, _)
MulFrom(a, b, i) ==
    IF i > Len(b) THEN <<>>
    ELSE BigAdd(BigUpBy(BigMulLimb(a, b[i]), i - 1), MulFrom(a, b, i + 1))

BigMul(a, b) == Only({MulFrom(u, w, 1) : u \in {a}, w \in {b}})

BitLen(a) ==
    Only({IF v = <<>> THEN 0 ELSE (Len(v) - 1) * LimbBits + BitsOf(v[Len(v)]) : v \in {a}})

\* a * 2^n
BigShl(a, n) == BigUpBy(BigMulLimb(a, Pow2(n % LimbBits)), n \div LimbBits)

RECURSIVE DivLimbFrom(_, _, _, _)
\* the digits 1..i of a \div d, rem being what the higher digits left
DivLimbFrom(a, d, i, rem) ==
    IF i = 0 THEN <<>>
    ELSE Only({Append(DivLimbFrom(a, d, i - 1, x % d), x \div d) : x \in {rem * Limb + a[i]}})

\* a without its n lowest digits
BigDownBy(a, n) ==
    Only({IF n >= Len(v) THEN <<>> ELSE SubSeq(v, n + 1, Len(v)) : v \in {a}})

\* a \div 2^n
BigShr(a, n) ==
    BigTrim(Only({DivLimbFrom(v, Pow2(n % LimbBits), Len(v), 0) :
                     v \in {BigDownBy(a, n \div LimbBits)}}))

\* bit i of a, bit 0 being the lowest
BigBit(a, i) == (Digit(a, i \div LimbBits + 1) \div Pow2(i % LimbBits)) % 2

RECURSIVE DigitDown(_, _, _)
\* the largest digit d that is not above guess with b * d <= a
DigitDown(a, b, guess) ==
    IF BigCmp(BigMulLimb(b, guess), a) <= 0 THEN guess
    ELSE DigitDown(a, b, guess - 1)

\* a \div b for a < b * 2^15 and b whose highest digit is 2^14 or more: the
\* two highest digits of a over the highest digit of b is the quotient or
\* exceeds it by 1 or 2
QuotientDigit(a, b) ==
    Only({DigitDown(a, b, IF guess >= Limb THEN Limb - 1 ELSE guess) :
             guess \in {(Digit(a, Len(b) + 1) * Limb + Digit(a, Len(b))) \div b[Len(b)]}})

RECURSIVE BigDivFrom(_, _, _, _, _)
\* long division of a by b from digit i of a down: quot and rem are the
\* quotient and the remainder of the digits above i
BigDivFrom(a, b, i, quot, rem) ==
    IF i = 0 THEN <<quot, rem>>
    ELSE Only({Only({BigDivFrom(a, b, i - 1, BigTrim(<<d>> \o q), BigSub(cur, BigMulLimb(b, d))) :
                        d \in {QuotientDigit(cur, b)}}) :
                  cur \in {BigTrim(<<a[i]>> \o rem)}, q \in {quot}})

\* <<a \div b, a % b * 2^n>> for b > 0: both numbers are first multiplied
\* by the power 2^n that makes the highest digit of b 2^14 or more, which
\* leaves the quotient as it is
BigDivMod(a, b) ==
    Only({Only({BigDivFrom(num, den, Len(num), <<>>, <<>>) :
                   num \in {BigMulLimb(a, scale)}, den \in {BigMulLimb(b, scale)}}) :
             scale \in {Pow2(LimbBits - BitsOf(b[Len(b)]))}})

Double(s, m, e) == [k |-> "double", s |-> s, m |-> m, e |-> e]
Zero(s) == Double(s, <<>>, 0)
IsZero(x) == x.m = <<>>

\* the float of the significand m, which has 53 bits or is 2^53
Carried(s, m, e) ==
    Only({IF BitLen(v) = 54 THEN Double(s, BigShr(v, 1), e + 1) ELSE Double(s, v, e) :
             v \in {m}})

\* The float nearest to (-1)^s * (n + f) * 2^e, where n > 0 has len bits,
\* 55 or more whenever f is not 0: f is 0 when inexact is FALSE and some
\* number between 0 and 1 when it is TRUE.  The bits of n below the 53
\* highest are compared with the half of the lowest bit that is kept.
RoundOf(s, n, e, inexact, len) ==
    IF len <= 53 THEN Double(s, BigShl(n, 53 - len), e - (53 - len))
    ELSE Only({Only({Carried(s, IF half > 0 \/ (half = 0 /\ (inexact \/ BigBit(kept, 0) = 1))
                                THEN BigAdd(kept, <<1>>) ELSE kept,
                             e + (len - 53)) :
                        half \in {BigCmp(BigSub(n, BigShl(kept, len - 53)),
                                         BigShl(<<1>>, len - 54))}}) :
                  kept \in {BigShr(n, len - 53)}})

Round(s, n, e, inexact) == Only({RoundOf(s, v, e, inexact, BitLen(v)) : v \in {n}})

\* the whole number n as a float
DoubleOf(n) ==
    IF n = 0 THEN Zero(0)
    ELSE IF n < 0 THEN Round(1, BigOf(-n), 0, FALSE)
    ELSE Round(0, BigOf(n), 0, FALSE)

Negated(x) == Only({[v EXCEPT !.s = 1 - v.s] : v \in {x}})

Times(x, y) ==
    Only({IF IsZero(u) \/ IsZero(w) THEN Zero((u.s + w.s) % 2)
          ELSE Round((u.s + w.s) % 2, BigMul(u.m, w.m), u.e + w.e, FALSE) :
             u \in {x}, w \in {y}})

\* x / y for y that is not 0
Over(x, y) ==
    Only({IF IsZero(u) \/ IsZero(w) THEN Zero((u.s + w.s) % 2)
          ELSE Only({Round((u.s + w.s) % 2, qr[1], u.e - w.e - 56, qr[2] # <<>>) :
                        qr \in {BigDivMod(BigShl(u.m, 56), w.m)}}) :
             u \in {x}, w \in {y}})

\* u + w for floats that are not 0: nu * 2^e and nw * 2^e are their sizes
PlusOf(u, w, e, nu, nw) ==
    IF u.s = w.s THEN Round(u.s, BigAdd(nu, nw), e, FALSE)
    ELSE Only({IF cmp = 0 THEN Zero(0)
               ELSE IF cmp > 0 THEN Round(u.s, BigSub(nu, nw), e, FALSE)
               ELSE Round(w.s, BigSub(nw, nu), e, FALSE) :
                  cmp \in {BigCmp(nu, nw)}})

Plus(x, y) ==
    Only({IF IsZero(u) THEN (IF IsZero(w) /\ u.s # w.s THEN Zero(0) ELSE w)
          ELSE IF IsZero(w) THEN u
          ELSE Only({Only({PlusOf(u, w, e, nu, nw) :
                              nu \in {BigShl(u.m, u.e - e)}, nw \in {BigShl(w.m, w.e - e)}}) :
                        e \in {IF u.e < w.e THEN u.e ELSE w.e}}) :
             u \in {x}, w \in {y}})

\* x < 0 and x > y
IsNegative(x) == \E v \in {x} : v.s = 1 /\ ~IsZero(v)
Greater(x, y) == \E d \in {Plus(x, Negated(y))} : d.s = 0 /\ ~IsZero(d)

RECURSIVE Newton(_, _)
\* the whole part of the square root of n > 0, from r above it: Newton's
\* steps decrease until they reach it
Newton(n, r) ==
    Only({IF BigCmp(next, r) >= 0 THEN r ELSE Newton(n, next) :
             next \in {BigShr(BigAdd(r, BigDivMod(n, r)[1]), 1)}})

\* Math.sqrt(x) for x > 0: the float nearest to the root.  The significand
\* is shifted by 58 or 59 bits, which leaves an even exponent and a root
\* of 56 bits.
Sqrt(x) ==
    Only({Only({Only({Round(0, r, (v.e - up) \div 2, BigMul(r, r) # n) :
                         r \in {Newton(n, BigShl(<<1>>, 56))}}) :
                   n \in {BigShl(v.m, up)}}) :
             v \in {x}, up \in {58 + (x.e % 2)}})

\* the decimal literal n/10, which is read as the float nearest to it
Tenths(n) == Over(DoubleOf(n), DoubleOf(10))

\* the whole number that the float x, which is not 0, is equal to, if it
\* is one below 2^30, and x itself otherwise
WholeOf(x) ==
    Only({IF BigShl(whole, -x.e) # x.m \/ Len(whole) > 2 THEN x
          ELSE Only({[k |-> "num", n |-> IF x.s = 1 THEN -n ELSE n] :
                        n \in {Digit(whole, 1) + Limb * Digit(whole, 2)}}) :
             whole \in {BigShr(x.m, -x.e)}})

\* The value of the float x
Value(x) ==
    Only({IF IsZero(v) THEN [k |-> "num", n |-> 0]
          ELSE IF v.e >= 0 \/ v.e < -52 THEN v
          ELSE WholeOf(v) : v \in {x}})

\* the float that a whole number or a float is
AsDouble(x) == Only({IF v.k = "num" THEN DoubleOf(v.n) ELSE v : v \in {x}})

\* the number written n/10
Decimal(n) == Value(Tenths(n))

\* JavaScript x + y and x - y on these values
Add(x, y) == Only({
    IF u.k = "num" /\ w.k = "num" THEN Num(u.n + w.n)
    ELSE IF u.k \in {"undefined", "NaN"} \/ w.k \in {"undefined", "NaN"} THEN NaN
    ELSE IF w = Num(0) THEN u
    ELSE IF u = Num(0) THEN w
    ELSE IF u.k \in {"float", "double"} \/ w.k \in {"float", "double"}
         THEN Float("+", <<u, w>>)
    ELSE Approx(u.n + w.n) : u \in {x}, w \in {y}})

Sub(x, y) == Only({
    IF u.k = "num" /\ w.k = "num" THEN Num(u.n - w.n)
    ELSE IF u.k \in {"undefined", "NaN"} \/ w.k \in {"undefined", "NaN"} THEN NaN
    ELSE IF w = Num(0) THEN u
    ELSE IF u.k \in {"float", "double"} \/ w.k \in {"float", "double"}
         THEN Float("-", <<u, w>>)
    ELSE Approx(u.n - w.n) : u \in {x}, w \in {y}})

\* arguments[i] (0-based): undefined past the end of the argument list
Arg(args, i) == IF i + 1 <= Len(args) THEN args[i + 1] ELSE Undefined

\* slice(arguments, from)
slice(args, from) == SubSeq(args, from + 1, Len(args))

\* _lastCCP and _lastQCP: undefined, null or a two-element array [x, y]
CPUndefined == [k |-> "undefined", x |-> Undefined, y |-> Undefined]
CPNull == [k |-> "null", x |-> Undefined, y |-> Undefined]
CP(x, y) == [k |-> "array", x |-> x, y |-> y]

\* An angle in radians that is deg * pi/180 + rad, for integers deg and rad
Angle(deg, rad) == [k |-> "angle", deg |-> deg, rad |-> rad]
\* -pi/2
StraightUp == Angle(-90, 0)

\* the lineWidth of a new context
DefaultLineWidth == Num(1)

\* What a method hands back: the canto object, undefined, or nothing
\* because it threw
This == "this"
NoValue == "undefined"
Threw == "threw"

\* The messages of the errors thrown
NoError == "none"
WrongArgs == "wrong number of arguments"
NoCurrent == "No current point; can't use relative coordinates"
NoSmooth == "Last command was not a cubic bezier"
BadPath == "Bad path"

(***************************************************************************)
(* The Canto object as a record: its fields, the calls the wrapped context *)
(* has received during the running operation (calls), the error thrown by  *)
(* it (err), and two history fields: the last path command invoked         *)
(* (lastCmd) and the last path command that returned normally after        *)
(* calling the context at least once (lastDone).  steps counts the methods  *)
(* invoked since construction.  useDegrees, angleUnitStack, penup and      *)
(* orientation are the fields _useDegrees, _angleUnitStack, _penup and     *)
(* _orientation.  Of the wrapped context the record keeps one graphics     *)
(* attribute, lineWidth, and the stack of the attribute values that the    *)
(* context's save() has saved (saved).  returned is what the last method   *)
(* returned to its caller.                                                 *)
(***************************************************************************)
VARIABLES currentX, currentY, startSubpathX, startSubpathY,
          lastCCP, lastQCP, pathIsEmpty, calls, err, lastCmd, lastDone,
          useDegrees, angleUnitStack, penup, orientation,
          lineWidth, saved, returned,
          steps

vars == <<currentX, currentY, startSubpathX, startSubpathY,
          lastCCP, lastQCP, pathIsEmpty, calls, err, lastCmd, lastDone,
          useDegrees, angleUnitStack, penup, orientation,
          lineWidth, saved, returned,
          steps>>

Self ==
    [currentX |-> currentX, currentY |-> currentY,
     startSubpathX |-> startSubpathX, startSubpathY |-> startSubpathY,
     lastCCP |-> lastCCP, lastQCP |-> lastQCP, pathIsEmpty |-> pathIsEmpty,
     calls |-> calls, err |-> err, lastCmd |-> lastCmd, lastDone |-> lastDone,
     useDegrees |-> useDegrees, angleUnitStack |-> angleUnitStack,
     penup |-> penup, orientation |-> orientation,
     lineWidth |-> lineWidth, saved |-> saved, returned |-> returned]

\* throw new Error(e)
Throw(self, e) == [self EXCEPT !.err = e, !.returned = Threw]

\* return this, unless the method has thrown
ReturnThis(self) == IF self.err # NoError THEN self ELSE [self EXCEPT !.returned = This]

\* convertAngle(c, x): x*pi/180 is kept as a term, and is 0 for 0
convertAngle(self, x) ==
    IF self.useDegrees # "true" THEN x
    ELSE IF x.k \in {"undefined", "NaN"} THEN NaN
    ELSE IF x = Num(0) THEN x
    ELSE Float("*pi/180", <<x>>)

\* this._.name(...)
Emit(self, call) == [self EXCEPT !.calls = Append(@, call)]

moveToCall(x, y) == <<"moveTo", x, y>>
lineToCall(x, y) == <<"lineTo", x, y>>
bezierCurveToCall(cx1, cy1, cx2, cy2, x, y) == <<"bezierCurveTo", cx1, cy1, cx2, cy2, x, y>>
quadraticCurveToCall(cx, cy, x, y) == <<"quadraticCurveTo", cx, cy, x, y>>
closePathCall == <<"closePath">>
beginPathCall == <<"beginPath">>

(***************************************************************************)
(* Utility functions                                                       *)
(***************************************************************************)
\* setcurrent without the reset of the control point status
setcurrentKeepsControl(self, x, y) ==
    [self EXCEPT !.currentX = x, !.currentY = y, !.pathIsEmpty = "false"]

\* setcurrent without c._pathIsEmpty = false
setcurrentKeepsEmpty(self, x, y) ==
    [self EXCEPT !.currentX = x, !.currentY = y,
                 !.lastCCP = CPNull, !.lastQCP = CPNull]

setcurrent(self, x, y) ==
    [self EXCEPT !.currentX = x, !.currentY = y,
                 !.lastCCP = CPNull, !.lastQCP = CPNull,
                 !.pathIsEmpty = "false"]

\* checkcurrent that lets every state through
checkcurrentNever(self) == self

checkcurrent(self) ==
    IF self.currentX = Undefined THEN Throw(self, NoCurrent) ELSE self

\* check that tests the minimum only and lets a partial group through
checkMinOnly(self, args, n, m, min) ==
    IF Len(args) < min THEN Throw(self, WrongArgs) ELSE self

check(self, args, n, m, min) ==
    IF n # (IF m # 0 THEN Len(args) % m ELSE Len(args)) \/ Len(args) < min
    THEN Throw(self, WrongArgs)
    ELSE self

RECURSIVE M(_, _)

\* ensure that opens a subpath whether the path is empty or not
ensureAlways(self, x, y) == M(self, <<x, y>>)

\* c.moveTo is M
ensure(self, x, y) ==
    IF self.pathIsEmpty = "true" THEN M(self, <<x, y>>) ELSE self

(***************************************************************************)
(* SVG path commands                                                       *)
(***************************************************************************)
\* the loop of L from argument i on
RECURSIVE LLoop(_, _, _)
LLoop(self, args, i) ==
    IF i >= Len(args) THEN self
    ELSE LLoop(Emit(self, lineToCall(Arg(args, i), Arg(args, i + 1))), args, i + 2)

L(self, args) ==
    LET s0 == check(self, args, 0, 2, 2) IN
    IF s0.err # NoError THEN s0 ELSE
    LET s1 == ensure(self, Arg(args, 0), Arg(args, 1))
        s2 == Emit(s1, lineToCall(Arg(args, 0), Arg(args, 1)))
        s3 == LLoop(s2, args, 2)
    IN  setcurrent(s3, Arg(args, Len(args) - 2), Arg(args, Len(args) - 1))

\* the loop of l that measures every pair from the point where l was called
RECURSIVE lLoopFromStart(_, _, _, _, _)
lLoopFromStart(self, args, i, cx, cy) ==
    IF i >= Len(args)
    THEN setcurrent(self, Add(cx, Arg(args, i - 2)), Add(cy, Arg(args, i - 1)))
    ELSE lLoopFromStart(Emit(self, lineToCall(Add(cx, Arg(args, i)),
                                              Add(cy, Arg(args, i + 1)))),
                        args, i + 2, cx, cy)

\* the loop of l from argument i on, (cx, cy) the point reached so far
RECURSIVE lLoop(_, _, _, _, _)
lLoop(self, args, i, cx, cy) ==
    IF i >= Len(args) THEN setcurrent(self, cx, cy)
    ELSE LET nx == Add(cx, Arg(args, i))
             ny == Add(cy, Arg(args, i + 1))
         IN  lLoop(Emit(self, lineToCall(nx, ny)), args, i + 2, nx, ny)

\* l that draws its first line before it tests the current point
lChecksPointLate(self, args) ==
    LET s0 == check(self, args, 0, 2, 2) IN
    IF s0.err # NoError THEN s0 ELSE
    LET s1 == checkcurrent(Emit(self, lineToCall(Add(self.currentX, Arg(args, 0)),
                                                 Add(self.currentY, Arg(args, 1))))) IN
    IF s1.err # NoError THEN s1 ELSE
    lLoop(self, args, 0, self.currentX, self.currentY)

l(self, args) ==
    LET s0 == check(self, args, 0, 2, 2) IN
    IF s0.err # NoError THEN s0 ELSE
    LET s1 == checkcurrent(self) IN
    IF s1.err # NoError THEN s1 ELSE
    lLoop(self, args, 0, self.currentX, self.currentY)

\* M that drops the pairs after the first
MFirstPairOnly(self, args) ==
    LET x == Arg(args, 0)
        y == Arg(args, 1)
        s1 == Emit(self, moveToCall(x, y))
    IN  [setcurrent(s1, x, y) EXCEPT !.startSubpathX = x, !.startSubpathY = y]

M(self, args) ==
    LET x == Arg(args, 0)
        y == Arg(args, 1)
        s1 == Emit(self, moveToCall(x, y))
        s2 == [setcurrent(s1, x, y) EXCEPT !.startSubpathX = x, !.startSubpathY = y]
    IN  IF Len(args) > 2 THEN L(s2, slice(args, 2)) ELSE s2

m(self, args) ==
    LET s0 == IF self.pathIsEmpty = "true"
              THEN [self EXCEPT !.currentX = Num(0), !.currentY = Num(0)]
              ELSE self
        s1 == checkcurrent(s0)
    IN  IF s1.err # NoError THEN s1 ELSE
        LET x == Add(Arg(args, 0), s0.currentX)
            y == Add(Arg(args, 1), s0.currentY)
            s2 == Emit(s0, moveToCall(x, y))
            s3 == [setcurrent(s2, x, y) EXCEPT !.startSubpathX = x, !.startSubpathY = y]
        IN  IF Len(args) > 2 THEN l(s3, slice(args, 2)) ELSE s3

\* z that leaves the current point where the subpath ended
zKeepsCurrent(self) ==
    setcurrent(Emit(self, closePathCall), self.currentX, self.currentY)

\* z that forgets the subpath start
zClearsStart(self) ==
    [setcurrent(Emit(self, closePathCall), self.startSubpathX, self.startSubpathY)
        EXCEPT !.startSubpathX = Undefined, !.startSubpathY = Undefined]

z(self) ==
    setcurrent(Emit(self, closePathCall), self.startSubpathX, self.startSubpathY)

\* beginPath that lifts the pen of the turtle as well
beginPathLiftsPen(self) ==
    [setcurrent(Emit(self, beginPathCall), Undefined, Undefined)
        EXCEPT !.startSubpathX = Undefined, !.startSubpathY = Undefined,
               !.pathIsEmpty = "true", !.penup = TRUE]

beginPath(self) ==
    [setcurrent(Emit(self, beginPathCall), Undefined, Undefined)
        EXCEPT !.startSubpathX = Undefined, !.startSubpathY = Undefined,
               !.pathIsEmpty = "true"]

\* the loop of H that draws to the X axis instead of keeping the current Y
RECURSIVE HLoopToAxis(_, _, _)
HLoopToAxis(self, args, i) ==
    IF i >= Len(args) \/ self.err # NoError THEN self
    ELSE HLoopToAxis(L(self, <<Arg(args, i), Num(0)>>), args, i + 1)

\* the loop of H from argument i on
RECURSIVE HLoop(_, _, _)
HLoop(self, args, i) ==
    IF i >= Len(args) \/ self.err # NoError THEN self
    ELSE HLoop(L(self, <<Arg(args, i), self.currentY>>), args, i + 1)

H(self, args) ==
    LET s1 == checkcurrent(self) IN
    IF s1.err # NoError THEN s1 ELSE HLoop(self, args, 0)

RECURSIVE hLoop(_, _, _)
hLoop(self, args, i) ==
    IF i >= Len(args) \/ self.err # NoError THEN self
    ELSE hLoop(l(self, <<Arg(args, i), Num(0)>>), args, i + 1)

h(self, args) == hLoop(self, args, 0)

RECURSIVE VLoop(_, _, _)
VLoop(self, args, i) ==
    IF i >= Len(args) \/ self.err # NoError THEN self
    ELSE VLoop(L(self, <<self.currentX, Arg(args, i)>>), args, i + 1)

V(self, args) ==
    LET s1 == checkcurrent(self) IN
    IF s1.err # NoError THEN s1 ELSE VLoop(self, args, 0)

RECURSIVE vLoop(_, _, _)
vLoop(self, args, i) ==
    IF i >= Len(args) \/ self.err # NoError THEN self
    ELSE vLoop(l(self, <<Num(0), Arg(args, i)>>), args, i + 1)

v(self, args) == vLoop(self, args, 0)

\* the polycurve loop of C from argument i on
RECURSIVE CLoop(_, _, _)
CLoop(self, args, i) ==
    IF i >= Len(args) THEN self
    ELSE CLoop(Emit(self, bezierCurveToCall(Arg(args, i), Arg(args, i + 1),
                                            Arg(args, i + 2), Arg(args, i + 3),
                                            Arg(args, i + 4), Arg(args, i + 5))),
               args, i + 6)

\* C that records the second control point of its first group
CFirstGroupControl(self, args) ==
    LET s0 == check(self, args, 0, 6, 6) IN
    IF s0.err # NoError THEN s0 ELSE
    LET n == Len(args)
        s1 == ensure(self, Arg(args, 0), Arg(args, 2))
        s2 == Emit(s1, bezierCurveToCall(Arg(args, 0), Arg(args, 1), Arg(args, 2),
                                         Arg(args, 3), Arg(args, 4), Arg(args, 5)))
        s3 == CLoop(s2, args, 6)
        s4 == setcurrent(s3, Arg(args, n - 2), Arg(args, n - 1))
    IN  [s4 EXCEPT !.lastCCP = CP(Arg(args, 2), Arg(args, 3))]

C(self, args) ==
    LET s0 == check(self, args, 0, 6, 6) IN
    IF s0.err # NoError THEN s0 ELSE
    LET n == Len(args)
        \* ensure(this,cx1,cx2): the first and the third argument
        s1 == ensure(self, Arg(args, 0), Arg(args, 2))
        s2 == Emit(s1, bezierCurveToCall(Arg(args, 0), Arg(args, 1), Arg(args, 2),
                                         Arg(args, 3), Arg(args, 4), Arg(args, 5)))
        s3 == CLoop(s2, args, 6)
        s4 == setcurrent(s3, Arg(args, n - 2), Arg(args, n - 1))
    IN  [s4 EXCEPT !.lastCCP = CP(Arg(args, n - 4), Arg(args, n - 3))]

\* the loop of c: (x0, y0) the point reached, (cx2, cy2) the last second
\* control point
RECURSIVE cLoop(_, _, _, _, _, _, _)
cLoop(self, args, i, x0, y0, cx2, cy2) ==
    IF i >= Len(args)
    THEN [setcurrent(self, x0, y0) EXCEPT !.lastCCP = CP(cx2, cy2)]
    ELSE LET ncx2 == Add(x0, Arg(args, i + 2))
             ncy2 == Add(y0, Arg(args, i + 3))
             nx0 == Add(x0, Arg(args, i + 4))
             ny0 == Add(y0, Arg(args, i + 5))
         IN  cLoop(Emit(self, bezierCurveToCall(Add(x0, Arg(args, i)),
                                                Add(y0, Arg(args, i + 1)),
                                                ncx2, ncy2, nx0, ny0)),
                   args, i + 6, nx0, ny0, ncx2, ncy2)

\* c that takes its arguments as absolute coordinates
cAbsolute(self, args) == C(self, args)

c(self, args) ==
    LET s0 == check(self, args, 0, 6, 6) IN
    IF s0.err # NoError THEN s0 ELSE
    LET s1 == checkcurrent(self) IN
    IF s1.err # NoError THEN s1 ELSE
    cLoop(self, args, 0, self.currentX, self.currentY, Arg(args, 2), Arg(args, 3))

RECURSIVE QLoop(_, _, _)
QLoop(self, args, i) ==
    IF i >= Len(args) THEN self
    ELSE QLoop(Emit(self, quadraticCurveToCall(Arg(args, i), Arg(args, i + 1),
                                               Arg(args, i + 2), Arg(args, i + 3))),
               args, i + 4)

Q(self, args) ==
    LET s0 == check(self, args, 0, 4, 4) IN
    IF s0.err # NoError THEN s0 ELSE
    LET n == Len(args)
        s1 == ensure(self, Arg(args, 0), Arg(args, 1))
        s2 == Emit(s1, quadraticCurveToCall(Arg(args, 0), Arg(args, 1),
                                            Arg(args, 2), Arg(args, 3)))
        s3 == QLoop(s2, args, 4)
        s4 == setcurrent(s3, Arg(args, n - 2), Arg(args, n - 1))
    IN  [s4 EXCEPT !.lastQCP = CP(Arg(args, n - 4), Arg(args, n - 3))]

RECURSIVE qLoop(_, _, _, _, _, _, _)
qLoop(self, args, i, x0, y0, cx, cy) ==
    IF i >= Len(args)
    THEN [setcurrent(self, x0, y0) EXCEPT !.lastQCP = CP(cx, cy)]
    ELSE LET ncx == Add(x0, Arg(args, i))
             ncy == Add(y0, Arg(args, i + 1))
             nx0 == Add(x0, Arg(args, i + 2))
             ny0 == Add(y0, Arg(args, i + 3))
         IN  qLoop(Emit(self, quadraticCurveToCall(ncx, ncy, nx0, ny0)),
                   args, i + 4, nx0, ny0, ncx, ncy)

q(self, args) ==
    LET s0 == check(self, args, 0, 4, 4) IN
    IF s0.err # NoError THEN s0 ELSE
    LET s1 == checkcurrent(self) IN
    IF s1.err # NoError THEN s1 ELSE
    qLoop(self, args, 0, self.currentX, self.currentY, Arg(args, 0), Arg(args, 1))

\* !this._lastCCP, !this._lastQCP
Falsy(cp) == cp.k # "array"

\* the loop of S and s that reflects the same control point for every group
RECURSIVE SLoopStale(_, _, _, _, _, _, _, _)
SLoopStale(self, args, i, x0, y0, cx0, cy0, rel) ==
    IF i >= Len(args)
    THEN [setcurrent(self, x0, y0) EXCEPT !.lastCCP = CP(cx0, cy0)]
    ELSE LET cx1 == Add(x0, Sub(x0, cx0))
             cy1 == Add(y0, Sub(y0, cy0))
             cx2 == IF rel THEN Add(x0, Arg(args, i)) ELSE Arg(args, i)
             cy2 == IF rel THEN Add(y0, Arg(args, i + 1)) ELSE Arg(args, i + 1)
             x == IF rel THEN Add(x0, Arg(args, i + 2)) ELSE Arg(args, i + 2)
             y == IF rel THEN Add(y0, Arg(args, i + 3)) ELSE Arg(args, i + 3)
         IN  SLoopStale(Emit(self, bezierCurveToCall(cx1, cy1, cx2, cy2, x, y)),
                        args, i + 4, x, y, cx0, cy0, rel)

\* the loop of S and s: rel is TRUE for s
RECURSIVE SLoop(_, _, _, _, _, _, _, _)
SLoop(self, args, i, x0, y0, cx0, cy0, rel) ==
    IF i >= Len(args)
    THEN [setcurrent(self, x0, y0) EXCEPT !.lastCCP = CP(cx0, cy0)]
    ELSE LET cx1 == Add(x0, Sub(x0, cx0))
             cy1 == Add(y0, Sub(y0, cy0))
             cx2 == IF rel THEN Add(x0, Arg(args, i)) ELSE Arg(args, i)
             cy2 == IF rel THEN Add(y0, Arg(args, i + 1)) ELSE Arg(args, i + 1)
             x == IF rel THEN Add(x0, Arg(args, i + 2)) ELSE Arg(args, i + 2)
             y == IF rel THEN Add(y0, Arg(args, i + 3)) ELSE Arg(args, i + 3)
         IN  SLoop(Emit(self, bezierCurveToCall(cx1, cy1, cx2, cy2, x, y)),
                   args, i + 4, x, y, cx2, cy2, rel)

S(self, args) ==
    LET s0 == check(self, args, 0, 4, 4) IN
    IF s0.err # NoError THEN s0 ELSE
    IF Falsy(self.lastCCP) THEN Throw(self, NoSmooth) ELSE
    LET s1 == checkcurrent(self) IN
    IF s1.err # NoError THEN s1 ELSE
    SLoop(self, args, 0, self.currentX, self.currentY,
          self.lastCCP.x, self.lastCCP.y, FALSE)

s(self, args) ==
    LET s0 == check(self, args, 0, 4, 4) IN
    IF s0.err # NoError THEN s0 ELSE
    IF Falsy(self.lastCCP) THEN Throw(self, NoSmooth) ELSE
    LET s1 == checkcurrent(self) IN
    IF s1.err # NoError THEN s1 ELSE
    SLoop(self, args, 0, self.currentX, self.currentY,
          self.lastCCP.x, self.lastCCP.y, TRUE)

\* the loop of T and t that reflects the same control point for every group
RECURSIVE TLoopStale(_, _, _, _, _, _, _, _)
TLoopStale(self, args, i, x0, y0, cx0, cy0, rel) ==
    IF i >= Len(args)
    THEN [setcurrent(self, x0, y0) EXCEPT !.lastQCP = CP(cx0, cy0)]
    ELSE LET cx == Add(x0, Sub(x0, cx0))
             cy == Add(y0, Sub(y0, cy0))
             x == IF rel THEN Add(x0, Arg(args, i)) ELSE Arg(args, i)
             y == IF rel THEN Add(y0, Arg(args, i + 1)) ELSE Arg(args, i + 1)
         IN  TLoopStale(Emit(self, quadraticCurveToCall(cx, cy, x, y)),
                        args, i + 2, x, y, cx0, cy0, rel)

\* the loop of T and t: rel is TRUE for t
RECURSIVE TLoop(_, _, _, _, _, _, _, _)
TLoop(self, args, i, x0, y0, cx0, cy0, rel) ==
    IF i >= Len(args)
    THEN [setcurrent(self, x0, y0) EXCEPT !.lastQCP = CP(cx0, cy0)]
    ELSE LET cx == Add(x0, Sub(x0, cx0))
             cy == Add(y0, Sub(y0, cy0))
             x == IF rel THEN Add(x0, Arg(args, i)) ELSE Arg(args, i)
             y == IF rel THEN Add(y0, Arg(args, i + 1)) ELSE Arg(args, i + 1)
         IN  TLoop(Emit(self, quadraticCurveToCall(cx, cy, x, y)),
                   args, i + 2, x, y, cx, cy, rel)

T(self, args) ==
    LET s0 == check(self, args, 0, 2, 2) IN
    IF s0.err # NoError THEN s0 ELSE
    IF Falsy(self.lastQCP) THEN Throw(self, NoSmooth) ELSE
    LET s1 == checkcurrent(self) IN
    IF s1.err # NoError THEN s1 ELSE
    TLoop(self, args, 0, self.currentX, self.currentY,
          self.lastQCP.x, self.lastQCP.y, FALSE)

t(self, args) ==
    LET s0 == check(self, args, 0, 2, 2) IN
    IF s0.err # NoError THEN s0 ELSE
    IF Falsy(self.lastQCP) THEN Throw(self, NoSmooth) ELSE
    LET s1 == checkcurrent(self) IN
    IF s1.err # NoError THEN s1 ELSE
    TLoop(self, args, 0, self.currentX, self.currentY,
          self.lastQCP.x, self.lastQCP.y, TRUE)

(***************************************************************************)
(* The elliptical arc.  A() computes the center parameterization of the    *)
(* arc in floating point (SVG F.6.5) and hands it to ellipse().  The model *)
(* keeps each computed float as a term naming the quantity and the arc it  *)
(* was computed from, so that equal inputs give equal floats.  The floats  *)
(* are NaN when an input is not a number, and the center and the angles    *)
(* are NaN when the two endpoints coincide (the square root of F.6.5.2 is  *)
(* then infinite and is multiplied by 0).                                  *)
(***************************************************************************)
\* Boolean(v): a float that is kept as a term is not 0
Boolean(x) ==
    \/ x.k = "float"
    \/ x.k \in {"num", "approx"} /\ x.n # 0
    \/ x.k = "double" /\ ~IsZero(x)

\* abs(x)
abs(x) == IF x.k \in {"num", "approx"} /\ x.n < 0 THEN [x EXCEPT !.n = 0 - x.n]
          ELSE IF x.k = "float" THEN Float("abs", <<x>>)
          ELSE IF x.k = "double" THEN [x EXCEPT !.s = 0]
          ELSE IF x.k = "undefined" THEN NaN ELSE x

IsFinite(x) == x.k \in {"num", "approx", "float", "double"}

\* a float computed near the value x
Near(x) == IF x.k \in {"num", "approx"} THEN Approx(x.n) ELSE Float("near", <<x>>)

\* lambda of F.6.6.2 for x1' and y1' of F.6.5.1, here x1p and y1p
Lambda(x1p, y1p, rx, ry) ==
    Plus(Over(Times(x1p, x1p), Times(rx, rx)), Over(Times(y1p, y1p), Times(ry, ry)))

\* rxrx*ryry/t - 1 of F.6.5.2, whose square root is taken
Radicand(x1p, y1p, rx, ry) ==
    LET rxrx == Times(rx, rx)
        ryry == Times(ry, ry)
        x1x1p == Times(x1p, x1p)
        y1y1p == Times(y1p, y1p)
        sum == Plus(Times(rxrx, y1y1p), Times(ryry, x1x1p))
    IN  Plus(Over(Times(rxrx, ryry), sum), Negated(DoubleOf(1)))

\* The radii are not corrected (lambda is not greater than 1) and the
\* number whose square root Step 2 takes is negative: the root is NaN, and
\* so are the center and the angles.  The rotation is 0: phi is 0, cosphi
\* is 1 and sinphi is 0, so that cosphi*tx + sinphi*ty is tx and
\* -sinphi*tx + cosphi*ty is ty.
RootIsNaN(x1, y1, x2, y2, rx, ry) ==
    \E tx \in {Over(Plus(AsDouble(x1), Negated(AsDouble(x2))), DoubleOf(2))},
       ty \in {Over(Plus(AsDouble(y1), Negated(AsDouble(y2))), DoubleOf(2))},
       rxd \in {AsDouble(rx)}, ryd \in {AsDouble(ry)} :
        /\ ~Greater(Lambda(tx, ty, rxd, ryd), DoubleOf(1))
        /\ IsNegative(Radicand(tx, ty, rxd, ryd))

\* The numbers of the arc, the six of xs, are whole numbers or floats known
\* bit by bit, one of them at least a float, the rotation is 0 and the
\* endpoints differ.  Of whole numbers of a few digits every product is
\* exact, lambda is 1 + n/(4 rxrx ryry) for a whole number n, which no
\* rounding takes to 1 from above, and the root is never NaN.
Computable(xs, rotation) ==
    /\ \A i \in 1..6 : xs[i].k \in {"num", "double"}
    /\ \E i \in 1..6 : xs[i].k = "double"
    /\ rotation = [k |-> "num", n |-> 0]
    /\ ~(xs[1] = xs[3] /\ xs[2] = xs[4])

\* Step 1.5 that corrects rx only
CorrectedOnlyRx(x1, y1, x2, y2, rx, ry) ==
    Only({Only({IF Greater(lambda, DoubleOf(1))
                THEN [above |-> TRUE, rx |-> Times(rxd, Sqrt(lambda)), ry |-> ryd]
                ELSE [above |-> FALSE, rx |-> rxd, ry |-> ryd] :
                   lambda \in {Lambda(tx, ty, rxd, ryd)}}) :
             tx \in {Over(Plus(AsDouble(x1), Negated(AsDouble(x2))), DoubleOf(2))},
             ty \in {Over(Plus(AsDouble(y1), Negated(AsDouble(y2))), DoubleOf(2))},
             rxd \in {AsDouble(rx)}, ryd \in {AsDouble(ry)}})

\* Step 1.5 for the radii rx and ry, which are not negative, and a rotation
\* of 0: when lambda > 1, rx *= sqrt(lambda) and ry *= sqrt(lambda);
\* otherwise the radii are left as they are
Corrected(x1, y1, x2, y2, rx, ry) ==
    Only({Only({IF Greater(lambda, DoubleOf(1))
                THEN Only({[above |-> TRUE, rx |-> Times(rxd, root),
                            ry |-> Times(ryd, root)] : root \in {Sqrt(lambda)}})
                ELSE [above |-> FALSE, rx |-> rxd, ry |-> ryd] :
                   lambda \in {Lambda(tx, ty, rxd, ryd)}}) :
             tx \in {Over(Plus(AsDouble(x1), Negated(AsDouble(x2))), DoubleOf(2))},
             ty \in {Over(Plus(AsDouble(y1), Negated(AsDouble(y2))), DoubleOf(2))},
             rxd \in {AsDouble(rx)}, ryd \in {AsDouble(ry)}})

\* The numbers that ellipse() passes on, for an arc whose numbers are known
\* bit by bit: the radius ry and the ratios of the radii after Step 1.5,
\* and, when the radii were corrected, the center: cx$ = cy$ = 0, so that
\* Step 3 leaves cx = (x1+x2)/2 and cy = (y1+y2)/2
Computed(x1, y1, x2, y2, rx, ry) ==
    Only({("ry" :> Value(radii.ry)) @@
          ("rx/ry" :> Value(Over(radii.rx, radii.ry))) @@
          ("ry/rx" :> Value(Over(radii.ry, radii.rx))) @@
          (IF radii.above
           THEN Only({("cx" :> Value(cx)) @@ ("cy" :> Value(cy)) @@
                      ("-cx" :> Value(Negated(cx))) @@ ("-cy" :> Value(Negated(cy))) :
                         cx \in {Over(Plus(AsDouble(x1), AsDouble(x2)), DoubleOf(2))},
                         cy \in {Over(Plus(AsDouble(y1), AsDouble(y2)), DoubleOf(2))}})
           ELSE <<>>) : radii \in {Corrected(x1, y1, x2, y2, rx, ry)}})

\* The inputs of the computation: start point, end point, radii, rotation
\* in degrees and the two flags, whether the square root of Step 2 is NaN,
\* and the numbers that are computed bit by bit
ArcSpec(x1, y1, x2, y2, rx, ry, rotation, big, clockwise) ==
    [x1 |-> x1, y1 |-> y1, x2 |-> x2, y2 |-> y2, rx |-> abs(rx), ry |-> abs(ry),
     rotation |-> rotation, big |-> big, clockwise |-> clockwise,
     rootIsNaN |-> /\ Computable(<<x1, y1, x2, y2, rx, ry>>, rotation)
                   /\ RootIsNaN(x1, y1, x2, y2, abs(rx), abs(ry)),
     computed |-> IF Computable(<<x1, y1, x2, y2, rx, ry>>, rotation)
                  THEN Computed(x1, y1, x2, y2, abs(rx), abs(ry)) ELSE <<>>]

\* a float computed from the arc, named f
ArcTerm(f, arc) == Float(f, arc)

Coincide(arc) ==
    /\ \A i \in 1..4 : <<arc.x1, arc.y1, arc.x2, arc.y2>>[i].k \in {"num", "double"}
    /\ arc.x1 = arc.x2 /\ arc.y1 = arc.y2

HasCenter(arc) ==
    /\ IsFinite(arc.x1) /\ IsFinite(arc.y1) /\ IsFinite(arc.x2) /\ IsFinite(arc.y2)
    /\ IsFinite(arc.rx) /\ IsFinite(arc.ry) /\ IsFinite(arc.rotation)
    /\ ~Coincide(arc)
    /\ ~arc.rootIsNaN

\* The floats of the computation: the center (cx, cy), the corrected radius
\* ry and the ratios of the corrected radii, the rotation phi in radians and
\* the angles theta1 and theta2, and the negations used to undo the
\* transformation
ArcFloat(f, arc) ==
    IF f \in DOMAIN arc.computed THEN arc.computed[f]
    ELSE IF f \in {"ry", "rx/ry", "ry/rx"}
    THEN (IF IsFinite(arc.rx) /\ IsFinite(arc.ry) THEN ArcTerm(f, arc) ELSE NaN)
    ELSE IF f \in {"phi", "-phi"}
    THEN (IF IsFinite(arc.rotation) THEN ArcTerm(f, arc) ELSE NaN)
    ELSE (IF HasCenter(arc) THEN ArcTerm(f, arc) ELSE NaN)

\* ellipse(cx, cy, rx, ry, rotation, sa, ea, anticlockwise) as called by A()
\* for the arc: its start point (sx, sy) is the point of the ellipse at
\* theta1 and its end point (ex, ey) the point at theta2, computed with sin
\* and cos: floats near the arc's endpoints.
\* When _useDegrees is set, ellipse() converts the three angles once more,
\* and the points it computes are other floats.
ellipse(self, spec, anticlockwise) == Only({
    LET radians == self.useDegrees # "true"
        sx == IF ~HasCenter(arc) THEN NaN
              ELSE IF radians THEN Near(arc.x1) ELSE ArcTerm("sx of converted angles", arc)
        sy == IF ~HasCenter(arc) THEN NaN
              ELSE IF radians THEN Near(arc.y1) ELSE ArcTerm("sy of converted angles", arc)
        ex == IF ~HasCenter(arc) THEN NaN
              ELSE IF radians THEN Near(arc.x2) ELSE ArcTerm("ex of converted angles", arc)
        ey == IF ~HasCenter(arc) THEN NaN
              ELSE IF radians THEN Near(arc.y2) ELSE ArcTerm("ey of converted angles", arc)
        s1 == ensure(self, sx, sy)
        s2 == Emit(s1, <<"translate", ArcFloat("cx", arc), ArcFloat("cy", arc)>>)
        s3 == Emit(s2, <<"rotate", convertAngle(self, ArcFloat("phi", arc))>>)
        s4 == Emit(s3, <<"scale", ArcFloat("rx/ry", arc), Num(1)>>)
        s5 == Emit(s4, <<"arc", Num(0), Num(0), ArcFloat("ry", arc),
                         convertAngle(self, ArcFloat("theta1", arc)),
                         convertAngle(self, ArcFloat("theta2", arc)),
                         anticlockwise>>)
        s6 == Emit(s5, <<"scale", ArcFloat("ry/rx", arc), Num(1)>>)
        s7 == Emit(s6, <<"rotate", convertAngle(self, ArcFloat("-phi", arc))>>)
        s8 == Emit(s7, <<"translate", ArcFloat("-cx", arc), ArcFloat("-cy", arc)>>)
    IN  setcurrent(s8, ex, ey) : arc \in {spec}})

\* A that takes the straight line for rx = 0 only
AOnlyRx(self, args) ==
    IF Arg(args, 0) = Num(0) THEN L(self, <<Arg(args, 5), Arg(args, 6)>>) ELSE
    LET s1 == checkcurrent(self) IN
    IF s1.err # NoError THEN s1 ELSE
    [ellipse([self EXCEPT !.useDegrees = "false"],
             ArcSpec(self.currentX, self.currentY, Arg(args, 5), Arg(args, 6),
                     Arg(args, 0), Arg(args, 1), Arg(args, 2),
                     Boolean(Arg(args, 3)), Boolean(Arg(args, 4))),
             ~Boolean(Arg(args, 4)))
        EXCEPT !.useDegrees = self.useDegrees]

\* A that leaves the angle unit as it is while it calls ellipse()
AKeepsAngleUnit(self, args) ==
    IF Arg(args, 0) = Num(0) \/ Arg(args, 1) = Num(0)
    THEN L(self, <<Arg(args, 5), Arg(args, 6)>>) ELSE
    LET s1 == checkcurrent(self) IN
    IF s1.err # NoError THEN s1 ELSE
    ellipse(self,
            ArcSpec(self.currentX, self.currentY, Arg(args, 5), Arg(args, 6),
                    Arg(args, 0), Arg(args, 1), Arg(args, 2),
                    Boolean(Arg(args, 3)), Boolean(Arg(args, 4))),
            ~Boolean(Arg(args, 4)))

A(self, args) ==
    LET rx == Arg(args, 0)
        ry == Arg(args, 1)
        rotation == Arg(args, 2)
        big == Arg(args, 3)
        clockwise == Arg(args, 4)
        x == Arg(args, 5)
        y == Arg(args, 6)
    IN  IF rx = Num(0) \/ ry = Num(0) THEN L(self, <<x, y>>) ELSE
        LET s1 == checkcurrent(self) IN
        IF s1.err # NoError THEN s1 ELSE
        \* olddegrees = this._useDegrees; this._useDegrees = false;
        \* this.ellipse(...); this._useDegrees = olddegrees
        LET olddegrees == self.useDegrees
            s2 == [self EXCEPT !.useDegrees = "false"]
            s3 == ellipse(s2, ArcSpec(self.currentX, self.currentY, x, y, rx, ry,
                                      rotation, Boolean(big), Boolean(clockwise)),
                          ~Boolean(clockwise))
        IN  [s3 EXCEPT !.useDegrees = olddegrees]

a(self, args) ==
    LET s1 == checkcurrent(self) IN
    IF s1.err # NoError THEN s1 ELSE
    A(self, <<Arg(args, 0), Arg(args, 1), Arg(args, 2), Arg(args, 3), Arg(args, 4),
              Add(Arg(args, 5), self.currentX), Add(Arg(args, 6), self.currentY)>>)

(***************************************************************************)
(* The other path methods: arc, arcTo, ellipse called directly, polygon    *)
(* and rect.  cos(0) = 1, sin(0) = 0 and cos(twopi) = 1 are exact;         *)
(* sin(twopi) is a tiny float that is not 0.                               *)
(***************************************************************************)
NotEnough == "not enough arguments"

twopi == Float("twopi", <<>>)

\* every value of the sequence is a finite number
AllFinite(values) == \A i \in 1..Len(values) : IsFinite(values[i])

\* an angle given to arc or ellipse: the default when it is undefined, and
\* converted otherwise
AngleOr(self, angle, default) ==
    IF angle = Undefined THEN default ELSE convertAngle(self, angle)

\* c + r*cos(angle) and c + r*sin(angle)
PlusCos(base, r, angle) ==
    IF ~IsFinite(r) \/ ~IsFinite(angle) THEN NaN
    ELSE IF angle = Num(0) \/ angle = twopi THEN Add(base, r)
    ELSE Add(base, Float("r*cos", <<r, angle>>))

PlusSin(base, r, angle) ==
    IF ~IsFinite(r) \/ ~IsFinite(angle) THEN NaN
    ELSE IF angle = Num(0) THEN Add(base, Num(0))
    ELSE IF angle = twopi /\ r # Num(0) /\ IsFinite(base) THEN Near(base)
    ELSE Add(base, Float("r*sin", <<r, angle>>))

\* the anticlockwise argument as the context receives it
Anticlockwise(flag) == IF flag = Undefined THEN FALSE ELSE Boolean(flag)

arc(self, args) ==
    LET x == Arg(args, 0)
        y == Arg(args, 1)
        r == Arg(args, 2)
        sa == AngleOr(self, Arg(args, 3), Num(0))
        ea == AngleOr(self, Arg(args, 4), twopi)
        s1 == ensure(self, PlusCos(x, r, sa), PlusSin(y, r, sa))
        s2 == Emit(s1, <<"arc", x, y, r, sa, ea, Anticlockwise(Arg(args, 5))>>)
    IN  setcurrent(s2, PlusCos(x, r, ea), PlusSin(y, r, ea))

\* The point that arcTo computes for the current point: NaN when an input
\* is no number or when P0 = P1 or P1 = P2 (a vector of length 0 makes the
\* angle NaN), (x1, y1) when r is 0, and a float otherwise.
ArcToPoint(i, x0, y0, args) ==
    LET x1 == Arg(args, 0)
        y1 == Arg(args, 1)
        x2 == Arg(args, 2)
        y2 == Arg(args, 3)
        r == Arg(args, 4)
    IN  IF ~AllFinite(<<x0, y0, x1, y1, x2, y2, r>>) THEN NaN
        ELSE IF (x0 = x1 /\ y0 = y1) \/ (x1 = x2 /\ y1 = y2) THEN NaN
        ELSE IF r = Num(0) THEN Add(Arg(args, i), Num(0))
        ELSE Float("arcTo", <<i, x0, y0>> \o args)

arcTo(self, args) ==
    LET s1 == ensure(self, Arg(args, 0), Arg(args, 1))
        s2 == checkcurrent(s1)
    IN  IF s2.err # NoError THEN s2 ELSE
        LET s3 == Emit(s2, <<"arcTo", Arg(args, 0), Arg(args, 1), Arg(args, 2),
                             Arg(args, 3), Arg(args, 4)>>)
        IN  setcurrent(s3, ArcToPoint(0, s2.currentX, s2.currentY, args),
                           ArcToPoint(1, s2.currentX, s2.currentY, args))

\* x / y
Div(x, y) ==
    IF x.k \in {"undefined", "NaN"} \/ y.k \in {"undefined", "NaN"} THEN NaN
    ELSE IF x = y /\ x.k = "num" /\ x.n # 0 THEN Num(1)
    ELSE Float("/", <<x, y>>)

\* ellipse(cx, cy, rx, ry, rotation, sa, ea, anticlockwise) called as a
\* method: the start and the end point are exact when the rotation is 0 and
\* the angle is 0, and floats otherwise
EllipsePoint(i, args, rotation, angle) ==
    LET base == Arg(args, i)
        rx == Arg(args, 2)
        ry == Arg(args, 3)
    IN  IF ~AllFinite(<<base, rx, ry, rotation, angle>>) THEN NaN
        ELSE IF rotation = Num(0) /\ angle = Num(0)
        THEN (IF i = 0 THEN Add(base, rx) ELSE Add(base, Num(0)))
        ELSE Float("ellipse", <<i, rotation, angle>> \o args)

ellipseMethod(self, args) ==
    LET cx == Arg(args, 0)
        cy == Arg(args, 1)
        rx == Arg(args, 2)
        ry == Arg(args, 3)
        rotation == AngleOr(self, Arg(args, 4), Num(0))
        sa == AngleOr(self, Arg(args, 5), Num(0))
        ea == AngleOr(self, Arg(args, 6), twopi)
        s1 == ensure(self, EllipsePoint(0, args, rotation, sa),
                           EllipsePoint(1, args, rotation, sa))
        s2 == Emit(s1, <<"translate", cx, cy>>)
        s3 == Emit(s2, <<"rotate", rotation>>)
        s4 == Emit(s3, <<"scale", Div(rx, ry), Num(1)>>)
        s5 == Emit(s4, <<"arc", Num(0), Num(0), ry, sa, ea, Anticlockwise(Arg(args, 7))>>)
        s6 == Emit(s5, <<"scale", Div(ry, rx), Num(1)>>)
        s7 == Emit(s6, <<"rotate", Sub(Num(0), rotation)>>)
        s8 == Emit(s7, <<"translate", Sub(Num(0), cx), Sub(Num(0), cy)>>)
    IN  setcurrent(s8, EllipsePoint(0, args, rotation, ea),
                           EllipsePoint(1, args, rotation, ea))

\* x / 2
Half(x) ==
    IF x.k = "num" /\ x.n % 2 = 0 THEN Num(x.n \div 2)
    ELSE IF x.k \in {"undefined", "NaN"} THEN NaN
    ELSE Float("/2", <<x>>)

\* this.lineTo for the points of args from argument i on
RECURSIVE polygonLines(_, _, _)
polygonLines(self, args, i) ==
    IF i >= Len(args) THEN self
    ELSE polygonLines(L(self, <<Arg(args, i), Arg(args, i + 1)>>), args, i + 2)

\* this._.arcTo around the corners i .. n-2 of the n points of args
RECURSIVE polygonArcs(_, _, _, _, _)
polygonArcs(self, args, i, n, radius) ==
    IF i >= n - 1 THEN self
    ELSE polygonArcs(Emit(self, <<"arcTo", Arg(args, i * 2), Arg(args, i * 2 + 1),
                                  Arg(args, i * 2 + 2), Arg(args, i * 2 + 3), radius>>),
                     args, i + 1, n, radius)

\* polygon whose final moveTo is left out
polygonNoFinalMove(self, args) ==
    IF Len(args) < 6 THEN Throw(self, NotEnough) ELSE
    z(polygonLines(M(self, <<Arg(args, 0), Arg(args, 1)>>), args, 2))

polygon(self, args) ==
    IF Len(args) < 6 THEN Throw(self, NotEnough) ELSE
    LET drawn ==
            IF Len(args) % 2 = 0
            THEN polygonLines(M(self, <<Arg(args, 0), Arg(args, 1)>>), args, 2)
            ELSE LET radius == Arg(args, Len(args) - 1)
                     n == (Len(args) - 1) \div 2
                     x0 == Half(Add(Arg(args, n * 2 - 2), Arg(args, 0)))
                     y0 == Half(Add(Arg(args, n * 2 - 1), Arg(args, 1)))
                     s1 == M(self, <<x0, y0>>)
                     s2 == polygonArcs(s1, args, 0, n, radius)
                 IN  Emit(s2, <<"arcTo", Arg(args, n * 2 - 2), Arg(args, n * 2 - 1),
                                Arg(args, 0), Arg(args, 1), radius>>)
    IN  M(z(drawn), <<Arg(args, 0), Arg(args, 1)>>)

\* rotatePoint(x, y, angle)[i]
rotatePoint(i, x, y, angle) ==
    IF ~AllFinite(<<x, y, angle>>) THEN NaN
    ELSE Float("rotatePoint", <<i, x, y, angle>>)

rect(self, args) ==
    LET x == Arg(args, 0)
        y == Arg(args, 1)
        wd == Arg(args, 2)
        ht == Arg(args, 3)
        radius == Arg(args, 4)
        rotation == Arg(args, 5)
    IN  IF Len(args) = 4
        THEN [setcurrent(Emit(self, <<"rect", x, y, wd, ht>>), x, y)
                 EXCEPT !.startSubpathX = x, !.startSubpathY = y]
        ELSE IF ~Boolean(rotation)
        THEN polygon(self, <<x, y, Add(x, wd), y, Add(x, wd), Add(y, ht),
                             x, Add(y, ht), radius>>)
        ELSE LET points ==
                     <<x, y,
                       Add(x, rotatePoint(0, wd, Num(0), rotation)),
                       Add(y, rotatePoint(1, wd, Num(0), rotation)),
                       Add(x, rotatePoint(0, wd, ht, rotation)),
                       Add(y, rotatePoint(1, wd, ht, rotation)),
                       Add(x, rotatePoint(0, Num(0), ht, rotation)),
                       Add(y, rotatePoint(1, Num(0), ht, rotation))>>
             IN  polygon(self, IF Boolean(radius) THEN Append(points, radius)
                               ELSE points)

(***************************************************************************)
(* reset() and the transformations                                         *)
(***************************************************************************)
\* The fields of the path state that resetCantoState sets; _pathIsEmpty is
\* not among them.
resetCantoState(self) ==
    [self EXCEPT !.currentX = Undefined, !.currentY = Undefined,
                 !.startSubpathX = Undefined, !.startSubpathY = Undefined,
                 !.useDegrees = "false", !.angleUnitStack = <<>>,
                 !.penup = TRUE, !.orientation = StraightUp,
                 !.lastCCP = CPUndefined, !.lastQCP = CPUndefined]

\* this._.canvas.width = this._.canvas.width is no call of the context; it
\* clears the canvas and puts the context back into the state of a new one.
\* reset() has no return statement.
reset(self) ==
    resetCantoState([self EXCEPT !.lineWidth = DefaultLineWidth, !.saved = <<>>])

\* translate, scale, rotate, transform and setTransform: name is the method
\* of the context that is called with args
\* a transformation that keeps the current point and the subpath start
transformationKeepsPoints(self, name, args) == ReturnThis(Emit(self, <<name>> \o args))

transformation(self, name, args) ==
    ReturnThis([Emit(self, <<name>> \o args)
                   EXCEPT !.currentX = Undefined, !.currentY = Undefined,
                          !.startSubpathX = Undefined, !.startSubpathY = Undefined])

translate(self, args) == transformation(self, "translate", args)
scale(self, args) == transformation(self, "scale", args)
rotate(self, args) ==
    transformation(self, "rotate", <<convertAngle(self, Arg(args, 0))>>)
transform(self, args) == transformation(self, "transform", args)
setTransform(self, args) == transformation(self, "setTransform", args)

(***************************************************************************)
(* Attributes, save and restore, and the drawing methods.  A string is     *)
(* the record Str(s) and an object of attribute values the record          *)
(* Obj(props), props the sequence of its <<name, value>> properties.  The  *)
(* wrapped context saves its attributes on save() and puts them back on    *)
(* restore(), which does nothing when nothing is saved.                    *)
(***************************************************************************)
Str(str) == [k |-> "string", n |-> str]
Obj(props) == [k |-> "object", n |-> props]

MissingValue == "missing attribute value"
UnsupportedUnit == "Unsupported angle unit"

\* this._.save() and this._.restore()
contextSave(self) == [Emit(self, <<"save">>) EXCEPT !.saved = Append(@, self.lineWidth)]
contextRestore(self) ==
    LET s1 == Emit(self, <<"restore">>)
    IN  IF s1.saved = <<>> THEN s1
        ELSE [s1 EXCEPT !.lineWidth = s1.saved[Len(s1.saved)],
                        !.saved = SubSeq(s1.saved, 1, Len(s1.saved) - 1)]

\* get angleUnit() and set angleUnit(x)
angleUnit(self) == IF self.useDegrees = "true" THEN "degrees" ELSE "radians"
setAngleUnit(self, x) ==
    IF x = Str("radians") THEN [self EXCEPT !.useDegrees = "false"]
    ELSE IF x = Str("degrees") THEN [self EXCEPT !.useDegrees = "true"]
    ELSE Throw(self, UnsupportedUnit)

\* this[name] = value: the setter of angleUnit, the setter of lineWidth,
\* which hands the value to the context, or a property that is no attribute
assign(self, name, value) ==
    IF name = "angleUnit" THEN setAngleUnit(self, value)
    ELSE IF name = "lineWidth" THEN [self EXCEPT !.lineWidth = value]
    ELSE self

\* for(var attr in arg) this[attr] = arg[attr], from property i on
RECURSIVE setProperties(_, _, _)
setProperties(self, props, i) ==
    IF i > Len(props) \/ self.err # NoError THEN self
    ELSE setProperties(assign(self, props[i][1], props[i][2]), props, i + 1)

\* the loop of set() from argument i on
RECURSIVE setLoop(_, _, _)
setLoop(self, args, i) ==
    IF i >= Len(args) \/ self.err # NoError THEN self
    ELSE LET arg == Arg(args, i)
         IN  IF arg.k = "string"
             THEN (IF i + 1 >= Len(args) THEN Throw(self, MissingValue)
                   ELSE setLoop(assign(self, arg.n, Arg(args, i + 1)), args, i + 2))
             ELSE IF arg.k = "object"
             THEN setLoop(setProperties(self, arg.n, 1), args, i + 1)
             ELSE setLoop(self, args, i + 1)

set(self, args) == ReturnThis(setLoop(self, args, 0))

\* save that does not push the angle unit
saveContextOnly(self) == ReturnThis(contextSave(self))

save(self) ==
    ReturnThis([contextSave(self) EXCEPT !.angleUnitStack = Append(@, self.useDegrees)])

\* Array.prototype.pop: undefined when the array is empty
restore(self) ==
    LET s1 == contextRestore(self)
        stack == s1.angleUnitStack
    IN  ReturnThis(IF stack = <<>> THEN [s1 EXCEPT !.useDegrees = "undefined"]
                   ELSE [s1 EXCEPT !.useDegrees = stack[Len(stack)],
                                   !.angleUnitStack = SubSeq(stack, 1, Len(stack) - 1)])

\* this._angleUnitStack[this._angleUnitStack.length-1] is undefined when the
\* array is empty
revert(self) ==
    LET s1 == contextSave(contextRestore(self))
        stack == s1.angleUnitStack
    IN  ReturnThis([s1 EXCEPT !.useDegrees = IF stack = <<>> THEN "undefined"
                                             ELSE stack[Len(stack)]])

\* The drawing methods: attrs are the attribute arguments, draws the calls
\* of the context that draw.  What set() returns is not used.
drawing(self, attrs, draws) ==
    LET called == set(contextSave(self), attrs)
        s1 == IF attrs = <<>> THEN self
              ELSE IF called.err # NoError THEN called
              ELSE [called EXCEPT !.returned = self.returned]
    IN  IF s1.err # NoError THEN s1 ELSE
        LET s2 == [s1 EXCEPT !.calls = @ \o draws]
        IN  IF attrs # <<>> THEN contextRestore(s2) ELSE s2

stroke(self, args) == ReturnThis(drawing(self, args, <<<<"stroke">>>>))
fill(self, args) == ReturnThis(drawing(self, args, <<<<"fill">>>>))
paint(self, args) == ReturnThis(drawing(self, args, <<<<"fill">>, <<"stroke">>>>))

\* x, y, w, h
Four(args) == <<Arg(args, 0), Arg(args, 1), Arg(args, 2), Arg(args, 3)>>

fillRect(self, args) ==
    ReturnThis(drawing(self, slice(args, 4), <<<<"fillRect">> \o Four(args)>>))
strokeRect(self, args) ==
    ReturnThis(drawing(self, slice(args, 4), <<<<"strokeRect">> \o Four(args)>>))
paintRect(self, args) ==
    ReturnThis(drawing(self, slice(args, 4),
                       <<<<"fillRect">> \o Four(args), <<"strokeRect">> \o Four(args)>>))

\* typeof v === "number": NaN is a number too
IsNumber(x) == x.k \in {"num", "approx", "float", "double", "NaN"}

\* fillText and strokeText: name is the method of the context
textMethod(self, name, args) ==
    LET hasMaxWidth == IsNumber(Arg(args, 3))
        attrs == IF hasMaxWidth THEN slice(args, 4) ELSE slice(args, 3)
        draw == IF hasMaxWidth THEN <<name>> \o Four(args)
                ELSE <<name, Arg(args, 0), Arg(args, 1), Arg(args, 2)>>
    IN  ReturnThis(drawing(self, attrs, <<draw>>))

fillText(self, args) == textMethod(self, "fillText", args)
strokeText(self, args) == textMethod(self, "strokeText", args)

\* the first index from i on whose argument is no number
RECURSIVE NumbersEnd(_, _)
NumbersEnd(args, i) ==
    IF i < Len(args) /\ IsNumber(Arg(args, i)) THEN NumbersEnd(args, i + 1) ELSE i

\* drawImage has no return statement
drawImage(self, args) ==
    LET i == NumbersEnd(args, 1)
    IN  drawing(self, slice(args, i), <<<<"drawImage">> \o SubSeq(args, 1, i)>>)

(***************************************************************************)
(* Dispatch on the command letter: this[cmd].apply(this, numbers).  It     *)
(* also keeps the two history fields.                                      *)
(***************************************************************************)
CmdLetters == {"M", "m", "L", "l", "Z", "z", "H", "h", "V", "v",
               "C", "c", "Q", "q", "S", "s", "T", "t", "A", "a"}

Apply(self, cmd, args) ==
    CASE cmd = "M" -> M(self, args)
      [] cmd = "m" -> m(self, args)
      [] cmd = "L" -> L(self, args)
      [] cmd = "l" -> l(self, args)
      [] cmd \in {"Z", "z"} -> z(self)
      [] cmd = "H" -> H(self, args)
      [] cmd = "h" -> h(self, args)
      [] cmd = "V" -> V(self, args)
      [] cmd = "v" -> v(self, args)
      [] cmd = "C" -> C(self, args)
      [] cmd = "c" -> c(self, args)
      [] cmd = "Q" -> Q(self, args)
      [] cmd = "q" -> q(self, args)
      [] cmd = "S" -> S(self, args)
      [] cmd = "s" -> s(self, args)
      [] cmd = "T" -> T(self, args)
      [] cmd = "t" -> t(self, args)
      [] cmd = "A" -> A(self, args)
      [] cmd = "a" -> a(self, args)
      [] cmd = "beginPath" -> beginPath(self)

\* the object after the path command cmd has returned or thrown, leaving r
Returned(self, cmd, r) ==
    [ReturnThis(r) EXCEPT !.lastCmd = cmd,
              !.lastDone = IF r.err = NoError /\ Len(r.calls) > Len(self.calls)
                           THEN cmd ELSE self.lastDone]

Invoke(self, cmd, args) == Returned(self, cmd, Apply(self, cmd, args))

(***************************************************************************)
(* Turtle graphics.  The orientation is an Angle, or NaN once something    *)
(* that is no number has been added to it.  The angles turned by are whole *)
(* numbers of degrees or of radians.                                       *)
(***************************************************************************)
\* x / y rounded towards zero, as the sign of JavaScript's % needs it
Truncated(x, y) == IF x >= 0 THEN x \div y ELSE -((-x) \div y)

\* pi, in ten-thousandths
PiTenThousandths == 31416

\* o % twopi: the whole turns in o are taken out of it, and the result has
\* the sign of o.  Whole radians are never a whole number of turns, and
\* those of a few turns are far enough from one for four decimals of pi to
\* tell how many turns there are
ModTwoPi(o) ==
    IF o.k # "angle" THEN NaN
    ELSE LET turns == Truncated(o.deg * PiTenThousandths + 180 * o.rad * 10000,
                                360 * PiTenThousandths)
         IN  Angle(o.deg - 360 * turns, o.rad)

\* o + x for the value x that convertAngle returns
AddAngle(o, x) ==
    IF o.k # "angle" THEN NaN
    ELSE IF x.k = "num" THEN Angle(o.deg, o.rad + x.n)
    ELSE IF x.k = "float" /\ x.f = "*pi/180" /\ x.of[1].k = "num"
         THEN Angle(o.deg + x.of[1].n, o.rad)
    ELSE NaN

\* o - x
SubAngle(o, x) ==
    IF o.k # "angle" THEN NaN
    ELSE IF x.k = "num" THEN Angle(o.deg, o.rad - x.n)
    ELSE IF x.k = "float" /\ x.f = "*pi/180" /\ x.of[1].k = "num"
         THEN Angle(o.deg - x.of[1].n, o.rad)
    ELSE NaN

pu(self) == ReturnThis([self EXCEPT !.penup = TRUE])
pd(self) == ReturnThis([self EXCEPT !.penup = FALSE])

\* d * cos(o) and d * sin(o), f being "cos" or "sin"
Along(d, f, o) ==
    IF d.k \in {"undefined", "NaN"} \/ o.k # "angle" THEN NaN
    ELSE IF d = Num(0) THEN Num(0)
    ELSE Float(f, <<d, o>>)

\* -d
Minus(d) ==
    IF d.k = "num" THEN Num(-d.n)
    ELSE IF d.k \in {"undefined", "NaN"} THEN NaN
    ELSE Float("-", <<Num(0), d>>)

\* this.m(dx, dy) with the pen up and this.l(dx, dy) with it down; the
\* history fields are those of the path command
forward(self, d) ==
    LET dx == Along(d, "cos", self.orientation)
        dy == Along(d, "sin", self.orientation)
    IN  IF self.penup THEN Returned(self, "m", m(self, <<dx, dy>>))
        ELSE Returned(self, "l", l(self, <<dx, dy>>))

fd(self, d) == ReturnThis(forward(self, d))
bk(self, d) == ReturnThis(forward(self, Minus(d)))

\* a left turn that takes the angle off the orientation
ltSubtracts(self, angle) ==
    ReturnThis([self EXCEPT
        !.orientation = ModTwoPi(SubAngle(self.orientation, convertAngle(self, angle)))])

rt(self, angle) ==
    ReturnThis([self EXCEPT
        !.orientation = ModTwoPi(AddAngle(self.orientation, convertAngle(self, angle)))])

lt(self, angle) ==
    ReturnThis([self EXCEPT
        !.orientation = ModTwoPi(AddAngle(self.orientation, convertAngle(self, angle)))])


(***************************************************************************)
(* svgpath().  A text is a sequence of characters.  The texts of the model *)
(* are written with command letters, digits, signs, spaces and commas (and *)
(* characters that are none of these); over this alphabet a number of the  *)
(* two regular expressions is an optional sign followed by digits.         *)
(***************************************************************************)
IsDigit(ch) == ch \in {"0", "1", "2", "3", "4", "5", "6", "7", "8", "9"}
IsSign(ch) == ch \in {"+", "-"}
IsSpace(ch) == ch \in {" ", "\t", "\n", "\r"}

\* the character at position i, "" past the end
At(text, i) == IF i >= 1 /\ i <= Len(text) THEN text[i] ELSE ""

\* \s* and \d+ from position i: the position after them
RECURSIVE SkipSpace(_, _)
SkipSpace(text, i) == IF IsSpace(At(text, i)) THEN SkipSpace(text, i + 1) ELSE i

RECURSIVE SkipDigits(_, _)
SkipDigits(text, i) == IF IsDigit(At(text, i)) THEN SkipDigits(text, i + 1) ELSE i

\* [+\-]?\d+ at position i: the position after it, 0 when there is no match
NumberEnd(text, i) ==
    LET j == IF IsSign(At(text, i)) THEN i + 1 ELSE i
    IN  IF IsDigit(At(text, j)) THEN SkipDigits(text, j) ELSE 0

\* (,\s*|\s+,?\s*)? at position i: the position after it
SepEnd(text, i) ==
    IF At(text, i) = "," THEN SkipSpace(text, i + 1)
    ELSE IF IsSpace(At(text, i))
    THEN LET j == SkipSpace(text, i)
         IN  IF At(text, j) = "," THEN SkipSpace(text, j + 1) ELSE j
    ELSE i

\* (number separator?)* at position i: the position after it
RECURSIVE EltEnd(_, _)
EltEnd(text, i) ==
    LET e == NumberEnd(text, i)
    IN  IF e = 0 THEN i ELSE EltEnd(text, SepEnd(text, e))

\* text.match(svgpathelt) from position i on: the matches, in order
RECURSIVE Elements(_, _)
Elements(text, i) ==
    IF i > Len(text) THEN <<>>
    ELSE IF At(text, i) \in CmdLetters
    THEN LET e == EltEnd(text, SkipSpace(text, i + 1))
         IN  <<SubSeq(text, i, e - 1)>> \o Elements(text, e)
    ELSE Elements(text, i + 1)

DigitValue(ch) ==
    CASE ch = "0" -> 0 [] ch = "1" -> 1 [] ch = "2" -> 2 [] ch = "3" -> 3
      [] ch = "4" -> 4 [] ch = "5" -> 5 [] ch = "6" -> 6 [] ch = "7" -> 7
      [] ch = "8" -> 8 [] ch = "9" -> 9

RECURSIVE Digits(_, _)
Digits(str, acc) ==
    IF str = <<>> THEN acc ELSE Digits(Tail(str), 10 * acc + DigitValue(Head(str)))

\* Number that reads the first digit only
NumberFirstDigit(str) == Num(DigitValue(Head(str)))

\* Number(str) of a signed integer numeral
Number(str) ==
    IF Head(str) = "-" THEN Num(0 - Digits(Tail(str), 0))
    ELSE IF Head(str) = "+" THEN Num(Digits(Tail(str), 0))
    ELSE Num(Digits(str, 0))

\* element.match(svgnumber) from position i on, each match converted
RECURSIVE Numbers(_, _)
Numbers(element, i) ==
    IF i > Len(element) THEN <<>>
    ELSE LET e == NumberEnd(element, i)
         IN  IF e = 0 THEN Numbers(element, i + 1)
             ELSE <<Number(SubSeq(element, i, e - 1))>> \o Numbers(element, e)

\* the loop of svgpath that takes back the calls made when an element fails
RECURSIVE svgpathLoopTakesBack(_, _, _)
svgpathLoopTakesBack(self, elements, i) ==
    IF self.err # NoError THEN [self EXCEPT !.calls = <<>>]
    ELSE IF i > Len(elements) THEN self
    ELSE svgpathLoopTakesBack(Invoke(self, Head(elements[i]), Numbers(elements[i], 1)),
                              elements, i + 1)

\* the loop of svgpath from element i on
RECURSIVE svgpathLoop(_, _, _)
svgpathLoop(self, elements, i) ==
    IF i > Len(elements) \/ self.err # NoError THEN self
    ELSE svgpathLoop(Invoke(self, Head(elements[i]), Numbers(elements[i], 1)),
                     elements, i + 1)

\* svgpath without the test for a text that has no element
svgpathNoTest(self, text) == svgpathLoop(self, Elements(text, 1), 1)

svgpath(self, text) ==
    LET elements == Elements(text, 1)
    IN  IF elements = <<>> THEN Throw(self, BadPath)
        ELSE ReturnThis(svgpathLoop(self, elements, 1))

(***************************************************************************)
(* The inputs of the operations                                            *)
(***************************************************************************)
ArgNums == {Num(0), Num(MaxArg)}
\* the points handed to the commands
Pairs == {<<Num(0), Num(0)>>, <<Num(MaxArg), Num(0)>>, <<Num(0), Num(MaxArg)>>}

\* an argument list of n numbers
ArgsOfLen(n) == [i \in 1..n |-> Num(i % 2)]
\* argument lists whose length is no positive multiple of size
WrongLists(size) == {ArgsOfLen(0), ArgsOfLen(size - 1), ArgsOfLen(size + 1)}

\* one pair, two pairs, or a wrong number of arguments
PairLists == Pairs \cup {<<Num(1), Num(0), Num(0), Num(1)>>} \cup WrongLists(2)
\* one scalar, two scalars or none
ScalarLists == {<<x>> : x \in ArgNums} \cup {<<Num(0), Num(1)>>, <<>>}
\* one group of a control point and an endpoint, two groups, or a wrong
\* number of arguments
QuadLists ==
    {<<p[1], p[2], p[2], p[1]>> : p \in Pairs}
        \cup {<<Num(0), Num(1), Num(1), Num(1), Num(1), Num(0), Num(0), Num(0)>>}
        \cup WrongLists(4)
\* one group of two control points and an endpoint, two groups, a group
\* whose two control points are the same, or a wrong number of arguments
CubicLists ==
    {<<p[1], p[2], p[2], p[1], p[1], p[2]>> : p \in Pairs}
        \cup {<<Num(0), Num(1), Num(1), Num(1), Num(1), Num(0),
                Num(1), Num(1), Num(0), Num(1), Num(0), Num(0)>>,
              <<Num(0), Num(1), Num(0), Num(1), Num(1), Num(1)>>}
        \cup WrongLists(6)
\* radii, rotation, flags and endpoint
ArcLists ==
    {<<rx, Num(1), Num(0), Num(0), Num(1)>> \o p : rx \in {Num(0), Num(MaxArg)}, p \in Pairs}

\* arc(x, y, r) and arc(x, y, r, sa, ea)
ArcMethodLists ==
    {<<Num(1), Num(0), Num(MaxArg)>>,
     <<Num(0), Num(1), Num(1), Num(1), Num(0)>>}
\* arcTo(x1, y1, x2, y2, r): a corner, and one whose two points coincide
ArcToLists ==
    {<<Num(1), Num(0), Num(1), Num(MaxArg), Num(1)>>,
     <<Num(0), Num(0), Num(0), Num(0), Num(1)>>}
\* ellipse(cx, cy, rx, ry) and ellipse with a rotation and angles
EllipseLists ==
    {<<Num(0), Num(1), Num(MaxArg), Num(1)>>,
     <<Num(1), Num(1), Num(1), Num(1), Num(1), Num(0), Num(1), Num(1)>>}
\* too few arguments, a triangle, and a triangle with a corner radius
PolygonLists ==
    {ArgsOfLen(5),
     <<Num(0), Num(0), Num(MaxArg), Num(0), Num(0), Num(1)>>,
     <<Num(0), Num(0), Num(1), Num(0), Num(0), Num(1), Num(1)>>}
\* rect(x, y, w, h), with a corner radius, and with a rotation
RectLists ==
    {<<Num(1), Num(0), Num(MaxArg), Num(1)>>,
     <<Num(0), Num(1), Num(1), Num(1), Num(1)>>,
     <<Num(0), Num(0), Num(1), Num(1), Num(0), Num(1)>>}

ArgsOf(cmd) ==
    CASE cmd \in {"M", "m", "L", "l", "T", "t"} -> PairLists
      [] cmd \in {"H", "h", "V", "v"} -> ScalarLists
      [] cmd \in {"Q", "q", "S", "s"} -> QuadLists
      [] cmd \in {"C", "c"} -> CubicLists
      [] cmd \in {"A", "a"} -> ArcLists
      [] cmd \in {"Z", "z", "beginPath"} -> {<<>>}

\* "M0 0 L10 0 L10 10 Z"
ExampleText == <<"M", "0", " ", "0", " ", "L", "1", "0", " ", "0", " ", "L", "1", "0", " ", "1", "0", " ", "Z">>
\* "M0 0 L10 0 L5"
PartialText == <<"M", "0", " ", "0", " ", "L", "1", "0", " ", "0", " ", "L", "5">>
\* "M0 0 X5 5 L1 1"
UnknownLetterText == <<"M", "0", " ", "0", " ", "X", "5", " ", "5", " ", "L", "1", " ", "1">>
\* "M1,1l1 0zl0 1"
CloseThenLineText == <<"M", "1", ",", "1", "l", "1", " ", "0", "z", "l", "0", " ", "1">>
\* "M0 0C10 10 20 10 20 20S30 30 30 30"
SmoothText == <<"M", "0", " ", "0", "C", "1", "0", " ", "1", "0", " ", "2", "0", " ", "1", "0", " ", "2", "0", " ", "2", "0", "S", "3", "0", " ", "3", "0", " ", "3", "0", " ", "3", "0">>
\* "L1-1 , 0+1H"
SignsText == <<"L", "1", "-", "1", " ", ",", " ", "0", "+", "1", "H">>
PathTexts ==
    {ExampleText, PartialText, UnknownLetterText, CloseThenLineText, SmoothText,
     SignsText, <<>>, <<"X", " ", "1">>,
     <<"m", "1", " ", "1">>,
     <<"M", "1", " ", "1", " ", "A", "1", " ", "1", " ", "0", " ", "0", " ", "1", " ", "0", " ", "0">>}

(***************************************************************************)
(* The state machine: one action per method of the Canto object            *)
(***************************************************************************)
Init ==
    /\ currentX = Undefined /\ currentY = Undefined
    /\ startSubpathX = Undefined /\ startSubpathY = Undefined
    /\ lastCCP = CPUndefined /\ lastQCP = CPUndefined
    /\ pathIsEmpty = "undefined"
    /\ calls = <<>> /\ err = NoError
    /\ lastCmd = "new" /\ lastDone = "new"
    /\ useDegrees = "false" /\ angleUnitStack = <<>>
    /\ penup = TRUE /\ orientation = StraightUp
    /\ lineWidth = DefaultLineWidth /\ saved = <<>>
    /\ returned = This
    /\ steps = 0

\* the object when a method is entered
Begin == [Self EXCEPT !.calls = <<>>, !.err = NoError, !.returned = NoValue]

\* the object becomes r
Changes(r) ==
    /\ steps' = steps + 1
    /\ currentX' = r.currentX /\ currentY' = r.currentY
    /\ startSubpathX' = r.startSubpathX /\ startSubpathY' = r.startSubpathY
    /\ lastCCP' = r.lastCCP /\ lastQCP' = r.lastQCP
    /\ pathIsEmpty' = r.pathIsEmpty
    /\ calls' = r.calls /\ err' = r.err
    /\ lastCmd' = r.lastCmd /\ lastDone' = r.lastDone
    /\ useDegrees' = r.useDegrees /\ angleUnitStack' = r.angleUnitStack
    /\ penup' = r.penup /\ orientation' = r.orientation
    /\ lineWidth' = r.lineWidth /\ saved' = r.saved
    /\ returned' = r.returned

\* a method of the behaviours that explore the path commands
Becomes(r) == steps < MaxSteps /\ Changes(r)

\* a method of the behaviours that explore the session: attributes, save
\* and restore, drawing and the turtle
Called(r) == steps < MaxCalls /\ Changes(r)

Do_M == \E args \in ArgsOf("M") : Becomes(Returned(Begin, "M", M(Begin, args)))
Do_m == \E args \in ArgsOf("m") : Becomes(Returned(Begin, "m", m(Begin, args)))
Do_L == \E args \in ArgsOf("L") : Becomes(Returned(Begin, "L", L(Begin, args)))
Do_l == \E args \in ArgsOf("l") : Becomes(Returned(Begin, "l", l(Begin, args)))
Do_z == Becomes(Returned(Begin, "z", z(Begin)))
Do_H == \E args \in ArgsOf("H") : Becomes(Returned(Begin, "H", H(Begin, args)))
Do_h == \E args \in ArgsOf("h") : Becomes(Returned(Begin, "h", h(Begin, args)))
Do_V == \E args \in ArgsOf("V") : Becomes(Returned(Begin, "V", V(Begin, args)))
Do_v == \E args \in ArgsOf("v") : Becomes(Returned(Begin, "v", v(Begin, args)))
Do_C == \E args \in ArgsOf("C") : Becomes(Returned(Begin, "C", C(Begin, args)))
Do_c == \E args \in ArgsOf("c") : Becomes(Returned(Begin, "c", c(Begin, args)))
Do_Q == \E args \in ArgsOf("Q") : Becomes(Returned(Begin, "Q", Q(Begin, args)))
Do_q == \E args \in ArgsOf("q") : Becomes(Returned(Begin, "q", q(Begin, args)))
Do_S == \E args \in ArgsOf("S") : Becomes(Returned(Begin, "S", S(Begin, args)))
Do_s == \E args \in ArgsOf("s") : Becomes(Returned(Begin, "s", s(Begin, args)))
Do_T == \E args \in ArgsOf("T") : Becomes(Returned(Begin, "T", T(Begin, args)))
Do_t == \E args \in ArgsOf("t") : Becomes(Returned(Begin, "t", t(Begin, args)))
Do_A == \E args \in ArgsOf("A") : Becomes(Returned(Begin, "A", A(Begin, args)))
Do_a == \E args \in ArgsOf("a") : Becomes(Returned(Begin, "a", a(Begin, args)))
Do_beginPath == Becomes(Returned(Begin, "beginPath", beginPath(Begin)))

Do_arc == \E args \in ArcMethodLists : Becomes(Returned(Begin, "arc", arc(Begin, args)))
Do_arcTo == \E args \in ArcToLists : Becomes(Returned(Begin, "arcTo", arcTo(Begin, args)))
Do_ellipse == \E args \in EllipseLists : Becomes(Returned(Begin, "ellipse", ellipseMethod(Begin, args)))
Do_polygon == \E args \in PolygonLists : Becomes(Returned(Begin, "polygon", polygon(Begin, args)))
Do_rect == \E args \in RectLists : Becomes(Returned(Begin, "rect", rect(Begin, args)))

Do_svgpath == \E text \in PathTexts : Becomes(svgpath(Begin, text))

Do_reset == Becomes(reset(Begin))

Do_translate == \E p \in Pairs : Becomes(translate(Begin, p))
Do_scale == \E p \in Pairs : Becomes(scale(Begin, p))
Do_rotate == \E x \in ArgNums : Becomes(rotate(Begin, <<x>>))
Do_transform == Becomes(transform(Begin, <<Num(1), Num(0), Num(0), Num(1), Num(0), Num(0)>>))
Do_setTransform == Becomes(setTransform(Begin, <<Num(1), Num(0), Num(0), Num(1), Num(0), Num(0)>>))

Next ==
    \/ Do_M \/ Do_m \/ Do_L \/ Do_l \/ Do_z
    \/ Do_H \/ Do_h \/ Do_V \/ Do_v
    \/ Do_C \/ Do_c \/ Do_Q \/ Do_q
    \/ Do_S \/ Do_s \/ Do_T \/ Do_t
    \/ Do_A \/ Do_a
    \/ Do_arc \/ Do_arcTo \/ Do_ellipse \/ Do_polygon \/ Do_rect
    \/ Do_beginPath \/ Do_svgpath \/ Do_reset
    \/ Do_translate \/ Do_scale \/ Do_rotate \/ Do_transform \/ Do_setTransform

Spec == Init /\ [][Next]_vars

(***************************************************************************)
(* The angle unit: behaviours of set("angleUnit", ...), save, restore and  *)
(* revert, with a subpath begun and arcs drawn in between.                 *)
(***************************************************************************)
Units == {Str("degrees"), Str("radians")}
\* radii, a rotation that is or is not zero, flags and endpoint
TurnedArcLists ==
    {<<Num(1), Num(1), x, Num(0), Num(1), Num(MaxArg), Num(0)>> : x \in ArgNums}

Call_setUnit == \E x \in Units : Called(set(Begin, <<Str("angleUnit"), x>>))
Call_save == Called(save(Begin))
Call_restore == Called(restore(Begin))
Call_revert == Called(revert(Begin))
Call_M == Called(Returned(Begin, "M", M(Begin, <<Num(0), Num(0)>>)))
Call_A == \E args \in TurnedArcLists : Called(Returned(Begin, "A", A(Begin, args)))
Call_a == \E args \in TurnedArcLists : Called(Returned(Begin, "a", a(Begin, args)))

UnitNext ==
    \/ Call_setUnit \/ Call_save \/ Call_restore \/ Call_revert
    \/ Call_M \/ Call_A \/ Call_a

UnitSpec == Init /\ [][UnitNext]_vars

(***************************************************************************)
(* Numbers with decimals: behaviours of M, L, z and A on coordinates and   *)
(* radii that are tenths, whose squares and quotients are rounded.         *)
(***************************************************************************)
\* (0, 0), (0.1, 0.2) and (1.6, 3)
DecimalPoints ==
    {<<Num(0), Num(0)>>, <<Decimal(1), Decimal(2)>>, <<Decimal(16), Num(3)>>}

\* Arcs to (1.6, 3): of radius 1.7, half the distance from (0, 0), so that
\* from there the arc is a half circle, and of radius 1.8; and an arc of
\* radius 1 in whole numbers.
DecimalArcLists ==
    {<<Decimal(17), Decimal(17), Num(0), Num(0), Num(1), Decimal(16), Num(3)>>,
     <<Decimal(18), Decimal(18), Num(0), Num(0), Num(1), Decimal(16), Num(3)>>,
     <<Decimal(5), Decimal(3), Num(0), Num(0), Num(1), Decimal(16), Num(3)>>,
     <<Num(1), Num(1), Num(0), Num(0), Num(1), Num(MaxArg), Num(0)>>}

Num_M == \E p \in DecimalPoints : Called(Returned(Begin, "M", M(Begin, p)))
Num_L == \E p \in DecimalPoints : Called(Returned(Begin, "L", L(Begin, p)))
Num_z == Called(Returned(Begin, "z", z(Begin)))
Num_A == \E args \in DecimalArcLists : Called(Returned(Begin, "A", A(Begin, args)))

NumericNext == Num_M \/ Num_L \/ Num_z \/ Num_A

NumericSpec == Init /\ [][NumericNext]_vars

(***************************************************************************)
(* Drawing: behaviours of set, of the methods that draw, called with and   *)
(* without attribute arguments, and of reset.                              *)
(***************************************************************************)
\* Attribute arguments: a name and a value, an object of names and values,
\* and a name whose value is missing after a pair that is complete
AttrLists ==
    {<<Str("lineWidth"), Num(2)>>,
     <<Str("angleUnit"), Str("degrees")>>,
     <<Str("angleUnit"), Str("radians")>>,
     <<Obj(<<<<"lineWidth", Num(3)>>, <<"angleUnit", Str("degrees")>>>>)>>,
     <<Str("lineWidth"), Num(2), Str("angleUnit")>>}

AttrListsOrNone == AttrLists \cup {<<>>}

\* x, y, w, h of a rectangle
RectArgs == <<Num(0), Num(0), Num(MaxArg), Num(MaxArg)>>
\* text, x, y, and text, x, y, maxWidth
TextArgLists == {<<Str("text"), Num(0), Num(0)>>, <<Str("text"), Num(0), Num(0), Num(MaxArg)>>}
\* image, x, y
ImageArgs == <<Str("image"), Num(0), Num(0)>>

Draw_set == \E attrs \in AttrLists : Called(set(Begin, attrs))
Draw_stroke == \E attrs \in AttrListsOrNone : Called(stroke(Begin, attrs))
Draw_fill == \E attrs \in AttrListsOrNone : Called(fill(Begin, attrs))
Draw_paint == \E attrs \in AttrListsOrNone : Called(paint(Begin, attrs))
Draw_fillRect == \E attrs \in AttrListsOrNone : Called(fillRect(Begin, RectArgs \o attrs))
Draw_strokeRect == \E attrs \in AttrListsOrNone : Called(strokeRect(Begin, RectArgs \o attrs))
Draw_paintRect == \E attrs \in AttrListsOrNone : Called(paintRect(Begin, RectArgs \o attrs))
Draw_fillText ==
    \E args \in TextArgLists, attrs \in AttrListsOrNone : Called(fillText(Begin, args \o attrs))
Draw_strokeText ==
    \E args \in TextArgLists, attrs \in AttrListsOrNone : Called(strokeText(Begin, args \o attrs))
Draw_drawImage == \E attrs \in AttrListsOrNone : Called(drawImage(Begin, ImageArgs \o attrs))
Draw_reset == Called(reset(Begin))

DrawNext ==
    \/ Draw_set \/ Draw_stroke \/ Draw_fill \/ Draw_paint
    \/ Draw_fillRect \/ Draw_strokeRect \/ Draw_paintRect
    \/ Draw_fillText \/ Draw_strokeText \/ Draw_drawImage \/ Draw_reset

DrawSpec == Init /\ [][DrawNext]_vars

(***************************************************************************)
(* The turtle: behaviours of penUp, penDown, forward, back, right and      *)
(* left, with the angle unit set and saved, a subpath begun with M and the *)
(* path begun anew with beginPath in between.                              *)
(***************************************************************************)
\* a distance, and angles to turn by: a quarter turn when the unit is
\* degrees
Distance == Num(MaxArg)
TurnAngles == {Num(MaxArg), Num(90)}

Turtle_pu == Called(pu(Begin))
Turtle_pd == Called(pd(Begin))
Turtle_fd == Called(fd(Begin, Distance))
Turtle_bk == Called(bk(Begin, Distance))
Turtle_rt == \E x \in TurnAngles : Called(rt(Begin, x))
Turtle_lt == \E x \in TurnAngles : Called(lt(Begin, x))
Turtle_setUnit == \E x \in Units : Called(set(Begin, <<Str("angleUnit"), x>>))
Turtle_save == Called(save(Begin))
Turtle_M == Called(Returned(Begin, "M", M(Begin, <<Num(0), Num(0)>>)))
Turtle_beginPath == Called(Returned(Begin, "beginPath", beginPath(Begin)))

TurtleNext ==
    \/ Turtle_pu \/ Turtle_pd \/ Turtle_fd \/ Turtle_bk \/ Turtle_rt \/ Turtle_lt
    \/ Turtle_setUnit \/ Turtle_save \/ Turtle_M \/ Turtle_beginPath

TurtleSpec == Init /\ [][TurtleNext]_vars

(***************************************************************************)
(* Properties.  Each is about what a method does when it is called in the  *)
(* current state: Begin is the object as the method finds it.              *)
(***************************************************************************)
PathState(r) ==
    <<r.currentX, r.currentY, r.startSubpathX, r.startSubpathY,
      r.lastCCP, r.lastQCP, r.pathIsEmpty>>

\* what a call leaves: the path state, the calls the context received and
\* the error thrown
Outcome(r) == <<PathState(r), r.calls, r.err>>

GroupSize(cmd) ==
    CASE cmd \in {"M", "m", "L", "l", "T", "t"} -> 2
      [] cmd \in {"Q", "q", "S", "s"} -> 4
      [] cmd \in {"C", "c"} -> 6
      [] cmd \in {"H", "h", "V", "v"} -> 1
      [] cmd \in {"A", "a"} -> 7

\* the argument lists of the actions that are whole groups, and those of
\* one group
ValidLists(cmd) ==
    {args \in ArgsOf(cmd) : Len(args) > 0 /\ Len(args) % GroupSize(cmd) = 0}
OneGroup(cmd) == {args \in ArgsOf(cmd) : Len(args) = GroupSize(cmd)}

\* the lengths that are no positive multiple of the group size of cmd
WrongLengths(cmd) == {n \in 0..MaxLen : n = 0 \/ n % GroupSize(cmd) # 0}

----------------------------------------------------------------------------
\* C1: svgpath("M0 0 L10 0 L10 10 Z") is split into the elements M, L, L, Z
\* with the numbers (0,0), (10,0), (10,10) and none, in this order, and from
\* any state it makes the context receive exactly moveTo(0,0), lineTo(10,0),
\* lineTo(10,10), closePath, without error, and leaves the current point at
\* (0,0).
C1_SvgpathExample ==
    LET elements == Elements(ExampleText, 1)
        r == svgpath(Begin, ExampleText)
    IN  /\ [i \in 1..Len(elements) |-> <<Head(elements[i]), Numbers(elements[i], 1)>>]
             = << <<"M", <<Num(0), Num(0)>> >>, <<"L", <<Num(10), Num(0)>> >>,
                  <<"L", <<Num(10), Num(10)>> >>, <<"Z", <<>> >> >>
        /\ r.err = NoError
        /\ r.calls = <<moveToCall(Num(0), Num(0)), lineToCall(Num(10), Num(0)),
                       lineToCall(Num(10), Num(10)), closePathCall>>
        /\ r.currentX = Num(0) /\ r.currentY = Num(0)

\* svgpath of the example has run on an object that had been used before
C1_Witness ==
    /\ steps = 2 /\ lastCmd = "Z" /\ err = NoError
    /\ calls = <<moveToCall(Num(0), Num(0)), lineToCall(Num(10), Num(0)),
                 lineToCall(Num(10), Num(10)), closePathCall>>
    /\ currentX = Num(0) /\ currentY = Num(0)

----------------------------------------------------------------------------
AbsoluteCmds == {"M", "L", "H", "V", "C", "Q", "S", "T", "A"}

RelativeOf(cmd) ==
    CASE cmd = "M" -> "m" [] cmd = "L" -> "l" [] cmd = "H" -> "h"
      [] cmd = "V" -> "v" [] cmd = "C" -> "c" [] cmd = "Q" -> "q"
      [] cmd = "S" -> "s" [] cmd = "T" -> "t" [] cmd = "A" -> "a"

\* the arguments of cmd with every coordinate reduced by the point (cx, cy)
Reduced(cmd, args, cx, cy) ==
    CASE cmd = "H" -> <<Sub(args[1], cx)>>
      [] cmd = "V" -> <<Sub(args[1], cy)>>
      [] cmd = "A" -> <<args[1], args[2], args[3], args[4], args[5],
                        Sub(args[6], cx), Sub(args[7], cy)>>
      [] OTHER -> [i \in 1..Len(args) |->
                      IF i % 2 = 1 THEN Sub(args[i], cx) ELSE Sub(args[i], cy)]

\* C2: in every state whose current point is a point (cx, cy) of numbers,
\* each absolute command M L H V C Q S T A with one argument group and its
\* relative counterpart called with the coordinates reduced by (cx, cy)
\* leave the same outcome: the same calls of the context, the same error if
\* any, and the same path state.
C2_RelativeMatchesAbsolute ==
    (currentX.k = "num" /\ currentY.k = "num") =>
        \A cmd \in AbsoluteCmds : \A args \in OneGroup(cmd) :
            Outcome(Apply(Begin, cmd, args))
                = Outcome(Apply(Begin, RelativeOf(cmd),
                                Reduced(cmd, args, currentX, currentY)))

\* a relative cubic curve has been drawn from a current point off the origin
C2_Witness ==
    /\ lastCmd = "c" /\ err = NoError /\ steps = 2
    /\ Len(calls) = 1 /\ calls[1][1] = "bezierCurveTo"
    /\ startSubpathX = Num(1)
    /\ lastCCP.k = "array"

----------------------------------------------------------------------------
\* z() followed at once by l(dx, dy) succeeds, and the line goes to the
\* subpath start plus (dx, dy)
CloseThenLine(dx, dy) ==
    LET r1 == z(Begin)
        r2 == l([r1 EXCEPT !.calls = <<>>], <<dx, dy>>)
    IN  /\ r1.err = NoError
        /\ r2.err = NoError
        /\ r2.calls = <<lineToCall(Add(startSubpathX, dx), Add(startSubpathY, dy))>>

\* C3 as claimed: in every reachable state closePath followed immediately by
\* a relative line succeeds and emits lineTo(subpathStart + (dx, dy)).
C3_CloseThenLineAlways == \A p \in Pairs : CloseThenLine(p[1], p[2])

\* C3 as amended: in every reachable state whose subpath start is defined,
\* closePath followed immediately by l(dx, dy) succeeds and emits
\* lineTo(subpathStart + (dx, dy)); when the subpath start is undefined, the
\* relative line fails with the no-current-point error.
C3_CloseThenLineFromStart ==
    \A p \in Pairs :
        IF startSubpathX # Undefined THEN CloseThenLine(p[1], p[2])
        ELSE l(z(Begin), p).err = NoCurrent

\* "M1,1l1 0zl0 1" has run: the line after z starts from the subpath start
C3_Witness ==
    /\ err = NoError /\ lastCmd = "l"
    /\ calls = <<moveToCall(Num(1), Num(1)), lineToCall(Num(2), Num(1)),
                 closePathCall, lineToCall(Num(1), Num(2))>>

----------------------------------------------------------------------------
\* C4 as claimed: whenever there is no current point, m(x, y) does what
\* M(x, y) does: it emits moveTo(x, y), leaves the current point and the
\* subpath start at (x, y), and does not fail.
C4_RelativeMoveWithoutCurrent ==
    currentX = Undefined =>
        \A p \in Pairs :
            /\ m(Begin, p).err = NoError
            /\ Outcome(m(Begin, p)) = Outcome(M(Begin, p))

----------------------------------------------------------------------------
CubicCmds == {"C", "c", "S", "s"}
QuadraticCmds == {"Q", "q", "T", "t"}

\* cmd called with args fails with the no-smooth-context error and emits
\* nothing
SmoothFails(cmd, args) ==
    LET r == Apply(Begin, cmd, args)
    IN  r.err = NoSmooth /\ r.calls = <<>>

----------------------------------------------------------------------------
\* the point 2*p - k
Reflect(p, k) == Sub(Add(p, p), k)

\* What S (rel FALSE) or s (rel TRUE) called with args must leave: for each
\* group g, whose start point is P[g] and whose previous second control
\* point is K[g], a bezierCurveTo with first control point 2*P[g] - K[g];
\* at the end lastCCP is the second control point of the last group and the
\* current point its endpoint.
SmoothCubicAsSpecified(r, args, rel) ==
    LET n == Len(args) \div 4
        \* the second control point and the endpoint of group g = 1..n, from
        \* the start point (x0, y0) of the group
        Ctl(g, x0, y0) ==
            IF rel THEN <<Add(x0, args[4 * g - 3]), Add(y0, args[4 * g - 2])>>
            ELSE <<args[4 * g - 3], args[4 * g - 2]>>
        End(g, x0, y0) ==
            IF rel THEN <<Add(x0, args[4 * g - 1]), Add(y0, args[4 * g])>>
            ELSE <<args[4 * g - 1], args[4 * g]>>
        P[g \in 1..(n + 1)] ==
            IF g = 1 THEN <<currentX, currentY>>
            ELSE End(g - 1, P[g - 1][1], P[g - 1][2])
        K[g \in 1..(n + 1)] ==
            IF g = 1 THEN <<lastCCP.x, lastCCP.y>>
            ELSE Ctl(g - 1, P[g - 1][1], P[g - 1][2])
    IN  /\ r.err = NoError
        /\ r.calls = [g \in 1..n |->
                         bezierCurveToCall(Reflect(P[g][1], K[g][1]),
                                           Reflect(P[g][2], K[g][2]),
                                           K[g + 1][1], K[g + 1][2],
                                           P[g + 1][1], P[g + 1][2])]
        /\ r.lastCCP = CP(K[n + 1][1], K[n + 1][2])
        /\ r.currentX = P[n + 1][1] /\ r.currentY = P[n + 1][2]

\* C6: whenever S or s can run (a cubic control point is recorded and the
\* current point is defined) and neither point is a float left by the
\* trigonometry of arcTo, arc, ellipse or rect (on which 2*P - K and the
\* code's P + (P - K) may round differently), every bezierCurveTo it emits
\* has the first
\* control point 2*P - K, P the start of the group and K the second control
\* point of the previous segment; afterwards lastCCP is the second control
\* point of the last group and the current point its endpoint.  And
\* C(10,10,20,10,20,20) followed by S(30,30,30,30) emits
\* bezierCurveTo(20,30,30,30,30,30).
C6_SmoothCubicReflects ==
    /\ (~Falsy(lastCCP) /\ currentX # Undefined
           /\ currentX.k # "float" /\ currentY.k # "float"
           /\ lastCCP.x.k # "float" /\ lastCCP.y.k # "float") =>
           \A args \in ValidLists("S") :
               /\ SmoothCubicAsSpecified(S(Begin, args), args, FALSE)
               /\ SmoothCubicAsSpecified(s(Begin, args), args, TRUE)
    /\ LET r1 == C(Begin, <<Num(10), Num(10), Num(20), Num(10), Num(20), Num(20)>>)
           r2 == S([r1 EXCEPT !.calls = <<>>], <<Num(30), Num(30), Num(30), Num(30)>>)
       IN  /\ r2.err = NoError
           /\ r2.calls = <<bezierCurveToCall(Num(20), Num(30), Num(30), Num(30),
                                             Num(30), Num(30))>>

\* "M0 0C10 10 20 10 20 20S30 30 30 30" has run
C6_Witness ==
    /\ err = NoError /\ lastCmd = "S"
    /\ calls = <<moveToCall(Num(0), Num(0)),
                 bezierCurveToCall(Num(10), Num(10), Num(20), Num(10), Num(20), Num(20)),
                 bezierCurveToCall(Num(20), Num(30), Num(30), Num(30), Num(30), Num(30))>>
    /\ lastCCP = CP(Num(30), Num(30))
    /\ currentX = Num(30) /\ currentY = Num(30)

----------------------------------------------------------------------------
\* the arcs with a radius of 0
DegenerateArcs ==
    {args \in {<<rx, ry, Num(0), f, Num(1)>> \o p :
                  rx \in ArgNums, ry \in ArgNums, f \in {Num(0), Num(1)}, p \in Pairs} :
        args[1] = Num(0) \/ args[2] = Num(0)}

\* C7: in every state, A(rx, ry, rotation, large, sweep, x, y) with rx = 0 or
\* ry = 0 leaves the outcome of L(x, y): the same calls of the context, the
\* same error if any, and the same path state.
C7_DegenerateArcIsLine ==
    \A args \in DegenerateArcs :
        Outcome(A(Begin, args)) = Outcome(L(Begin, <<args[6], args[7]>>))

\* A with rx = 0 has run on an empty path: it has opened the subpath and
\* drawn the line
C7_Witness ==
    /\ lastCmd = "A" /\ err = NoError
    /\ calls = <<moveToCall(Num(1), Num(0)), lineToCall(Num(1), Num(0))>>
    /\ currentX = Num(1) /\ currentY = Num(0)

----------------------------------------------------------------------------
\* C8: L l C c Q q S s T t called with no argument or with a number of
\* arguments that is no multiple of the group size fail with the
\* wrong-number-of-arguments error, emit nothing and change nothing.
C8_WrongArgumentCount ==
    \A cmd \in {"L", "l", "C", "c", "Q", "q", "S", "s", "T", "t"} :
        \A n \in WrongLengths(cmd) :
            LET r == Apply(Begin, cmd, ArgsOfLen(n))
            IN  r.err = WrongArgs /\ r.calls = <<>> /\ PathState(r) = PathState(Begin)

\* C has been called with a wrong number of arguments after something was
\* drawn
C8_Witness ==
    /\ lastCmd = "C" /\ err = WrongArgs /\ calls = <<>>
    /\ currentX # Undefined

----------------------------------------------------------------------------
\* C9 as claimed: M and m fail with the wrong-number-of-arguments error
\* whenever the number of their arguments is no positive multiple of 2.
C9_MoveWrongArgumentCount ==
    \A cmd \in {"M", "m"} : \A n \in WrongLengths(cmd) :
        Apply(Begin, cmd, ArgsOfLen(n)).err = WrongArgs

----------------------------------------------------------------------------
----------------------------------------------------------------------------
PathMethods == {"arc", "arcTo", "ellipse", "polygon", "rect"}

MethodArgs(name) ==
    CASE name = "arc" -> ArcMethodLists
      [] name = "arcTo" -> ArcToLists
      [] name = "ellipse" -> EllipseLists
      [] name = "polygon" -> PolygonLists
      [] name = "rect" -> RectLists

\* this[name](args) for the path methods that are no SVG command letters
CallMethod(self, name, args) ==
    CASE name = "arc" -> arc(self, args)
      [] name = "arcTo" -> arcTo(self, args)
      [] name = "ellipse" -> ellipseMethod(self, args)
      [] name = "polygon" -> polygon(self, args)
      [] name = "rect" -> rect(self, args)

\* r, left by the path command cmd, has a control point only of the kind
\* that cmd records
ControlOnlyOf(cmd, r) ==
    r.err = NoError =>
        /\ r.lastCCP.k = "array" => cmd \in CubicCmds
        /\ r.lastQCP.k = "array" => cmd \in QuadraticCmds

\* C11 as claimed: after any path command that completes without error, the
\* cubic control point is defined only if the command was C, c, S or s and
\* the quadratic one only if it was Q, q, T or t; every other path command
\* leaves both cleared.
C11_ControlOnlyAfterCurve ==
    /\ \A cmd \in CmdLetters \cup {"beginPath"} : \A args \in ArgsOf(cmd) :
           ControlOnlyOf(cmd, Apply(Begin, cmd, args))
    /\ \A name \in PathMethods : \A args \in MethodArgs(name) :
           ControlOnlyOf(name, CallMethod(Begin, name, args))

\* the same for the calls that hand at least one argument to H, h, V and v
C11_ExceptNoArguments ==
    /\ \A cmd \in CmdLetters \cup {"beginPath"} : \A args \in ArgsOf(cmd) :
           (cmd \in {"H", "h", "V", "v"} => args # <<>>) =>
               ControlOnlyOf(cmd, Apply(Begin, cmd, args))
    /\ \A name \in PathMethods : \A args \in MethodArgs(name) :
           ControlOnlyOf(name, CallMethod(Begin, name, args))

----------------------------------------------------------------------------
\* lineTo for each pair of args in order
LineCalls(args) ==
    [i \in 1..(Len(args) \div 2) |-> lineToCall(args[2 * i - 1], args[2 * i])]

\* r is left by a line command that first moved to the first pair of args:
\* moveTo, then a lineTo for each pair, the subpath start at the first pair
\* and the current point at the last
OpensAndDraws(r, args) ==
    /\ r.err = NoError
    /\ r.calls = <<moveToCall(args[1], args[2])>> \o LineCalls(args)
    /\ r.startSubpathX = args[1] /\ r.startSubpathY = args[2]
    /\ r.currentX = args[Len(args) - 1] /\ r.currentY = args[Len(args)]

\* C12 as claimed: whenever no subpath is open (the current point is
\* undefined: after construction, beginPath or a transform), L first moves
\* to its first pair, setting the subpath start, then emits lineTo for each
\* pair and leaves the current point at the last pair.
C12_LineOpensSubpath ==
    currentX = Undefined =>
        \A args \in ValidLists("L") : OpensAndDraws(L(Begin, args), args)

\* the same where the path has been emptied by beginPath
C12_LineOpensEmptiedPath ==
    pathIsEmpty = "true" =>
        \A args \in ValidLists("L") : OpensAndDraws(L(Begin, args), args)

----------------------------------------------------------------------------
RelativeCmds == {"l", "h", "v", "c", "q", "s", "t", "a"}

\* C13: whenever the current point is undefined, each of l h v c q s t a
\* called with a valid argument list that is not empty (s with a cubic
\* control point recorded, t with a quadratic one) fails with the
\* no-current-point error, emits nothing and leaves the path state as it was.
C13_RelativeNeedsCurrent ==
    currentX = Undefined =>
        \A cmd \in RelativeCmds : \A args \in ValidLists(cmd) :
            ((cmd = "s" => ~Falsy(lastCCP)) /\ (cmd = "t" => ~Falsy(lastQCP))) =>
                Outcome(Apply(Begin, cmd, args)) = Outcome(Throw(Begin, NoCurrent))

\* c has been called on the path that beginPath emptied, and has failed
C13_Witness ==
    /\ lastCmd = "c" /\ err = NoCurrent /\ calls = <<>>
    /\ currentX = Undefined /\ pathIsEmpty = "true" /\ steps = 2

----------------------------------------------------------------------------
\* r is left by a closePath called in state self: one closePath call, the
\* current point at the subpath start, the subpath start unchanged and both
\* control points cleared
Closed(self, r) ==
    /\ r.err = NoError
    /\ r.calls = <<closePathCall>>
    /\ r.currentX = self.startSubpathX /\ r.currentY = self.startSubpathY
    /\ r.startSubpathX = self.startSubpathX /\ r.startSubpathY = self.startSubpathY
    /\ r.lastCCP = CPNull /\ r.lastQCP = CPNull

\* C14: in every state z and Z emit exactly one closePath, set the current
\* point to the subpath start, leave the subpath start unchanged and clear
\* both control points; and after a move to p followed by a line, the point
\* closePath returns to is p.
C14_ClosePathReturnsToStart ==
    /\ Closed(Begin, z(Begin))
    /\ Closed(Begin, Apply(Begin, "Z", <<>>))
    /\ \A p \in Pairs : \A to \in Pairs :
           LET moved == [M(Begin, p) EXCEPT !.calls = <<>>]
               drawn == [L(moved, to) EXCEPT !.calls = <<>>]
               r == z(drawn)
           IN  Closed(drawn, r) /\ r.currentX = p[1] /\ r.currentY = p[2]

\* z has closed a subpath that was opened off the origin
C14_Witness ==
    /\ lastCmd = "z" /\ err = NoError /\ calls = <<closePathCall>>
    /\ currentX = Num(1) /\ startSubpathX = Num(1)
    /\ currentY = startSubpathY
    /\ lastCCP = CPNull /\ lastQCP = CPNull

----------------------------------------------------------------------------
\* the points reached by the pairs of args taken as offsets, each from the
\* point before, starting from (cx, cy)
RECURSIVE OffsetPoints(_, _, _)
OffsetPoints(args, cx, cy) ==
    IF Len(args) < 2 THEN <<>>
    ELSE LET x == Add(cx, args[1])
             y == Add(cy, args[2])
         IN  <<x, y>> \o OffsetPoints(SubSeq(args, 3, Len(args)), x, y)

\* r is left by a move to the first pair of points followed by a line to
\* each of the others
MovesAndDraws(r, points) ==
    /\ r.err = NoError
    /\ r.calls = <<moveToCall(points[1], points[2])>>
                     \o LineCalls(SubSeq(points, 3, Len(points)))
    /\ r.startSubpathX = points[1] /\ r.startSubpathY = points[2]
    /\ r.currentX = points[Len(points) - 1] /\ r.currentY = points[Len(points)]

\* the argument lists of one, two and three pairs
MoveLists == ValidLists("M") \cup {ArgsOfLen(6)}

\* C15: in every state M with one or more pairs emits moveTo to the first
\* pair and lineTo to each further pair in order, sets the subpath start to
\* the first pair and the current point to the last; and where the current
\* point is defined (and no float of an arc computation) m does so with the
\* first pair offset by the current point and each further pair offset by
\* the point before it.
C15_MoveThenLines ==
    /\ \A args \in MoveLists : MovesAndDraws(M(Begin, args), args)
    /\ (currentX # Undefined /\ currentX.k # "float" /\ currentY.k # "float") =>
           \A args \in MoveLists :
               MovesAndDraws(m(Begin, args), OffsetPoints(args, currentX, currentY))

\* m with two pairs has run from a current point off the origin
C15_Witness ==
    /\ lastCmd = "m" /\ err = NoError /\ steps = 2
    /\ Len(calls) = 2 /\ calls[1][1] = "moveTo" /\ calls[2][1] = "lineTo"
    /\ startSubpathX.k = "num" /\ startSubpathX.n > 1
    /\ currentY # startSubpathY

----------------------------------------------------------------------------
\* the argument lists of H, h, V and v that are not empty
Scalars == {args \in ScalarLists : args # <<>>}

\* the scalars of args paired with 0, as offsets along X or along Y
AlongX(args) == [i \in 1..(2 * Len(args)) |-> IF i % 2 = 1 THEN args[(i + 1) \div 2] ELSE Num(0)]
AlongY(args) == [i \in 1..(2 * Len(args)) |-> IF i % 2 = 0 THEN args[i \div 2] ELSE Num(0)]

\* r is left by a line to each of the points in order
Draws(r, points) ==
    /\ r.err = NoError
    /\ r.calls = LineCalls(points)
    /\ r.currentX = points[Len(points) - 1] /\ r.currentY = points[Len(points)]

\* C16: in every state whose current point (cx, cy) is defined, H(x1..xn)
\* emits lineTo(xi, cy) in order and ends at (xn, cy); V(y1..yn) emits
\* lineTo(cx, yi) and ends at (cx, yn); h and v do the same with each scalar
\* added to the coordinate reached by the argument before it.
C16_HorizontalVertical ==
    (IsFinite(currentX) /\ IsFinite(currentY)) =>
        \A args \in Scalars :
            /\ Draws(H(Begin, args),
                     [i \in 1..(2 * Len(args)) |->
                         IF i % 2 = 1 THEN args[(i + 1) \div 2] ELSE currentY])
            /\ Draws(V(Begin, args),
                     [i \in 1..(2 * Len(args)) |->
                         IF i % 2 = 0 THEN args[i \div 2] ELSE currentX])
            /\ Draws(h(Begin, args), OffsetPoints(AlongX(args), currentX, currentY))
            /\ Draws(v(Begin, args), OffsetPoints(AlongY(args), currentX, currentY))

\* H has drawn from a point off the X axis
C16_Witness ==
    /\ lastCmd = "H" /\ err = NoError /\ steps = 2
    /\ Len(calls) = 2 /\ calls[2] = lineToCall(Num(1), Num(1))
    /\ currentX = Num(1) /\ currentY = Num(1)

-----------------------------------------------------------------------------
\* the calls of r to the context method called name, in order
CallsOf(r, name) == SelectSeq(r.calls, LAMBDA call : call[1] = name)

\* group g (from 1) of args, in groups of size
Group(args, size, g) == SubSeq(args, size * (g - 1) + 1, size * g)

\* C17: C with k groups of 6 numbers emits k bezierCurveTo calls in order,
\* each with the values of its group, and leaves the current point at the
\* endpoint of the last group and lastCCP at the second control point of the
\* last group; Q does the same with groups of 4, quadraticCurveTo and
\* lastQCP, whose control point is the only one of the last group.
C17_CurveGroups ==
    /\ \A args \in ValidLists("C") :
            LET r == C(Begin, args)
                k == Len(args) \div 6
                last == Group(args, 6, k)
            IN  /\ r.err = NoError
                /\ CallsOf(r, "bezierCurveTo")
                       = [g \in 1..k |-> <<"bezierCurveTo">> \o Group(args, 6, g)]
                /\ r.currentX = last[5] /\ r.currentY = last[6]
                /\ r.lastCCP = CP(last[3], last[4])
    /\ \A args \in ValidLists("Q") :
            LET r == Q(Begin, args)
                k == Len(args) \div 4
                last == Group(args, 4, k)
            IN  /\ r.err = NoError
                /\ CallsOf(r, "quadraticCurveTo")
                       = [g \in 1..k |-> <<"quadraticCurveTo">> \o Group(args, 4, g)]
                /\ r.currentX = last[3] /\ r.currentY = last[4]
                /\ r.lastQCP = CP(last[1], last[2])

\* C has drawn two groups whose second control points differ, and whose last
\* group has two different control points
C17_Witness ==
    /\ lastCmd = "C" /\ err = NoError
    /\ Len(calls) = 2
    /\ calls[1] = bezierCurveToCall(Num(0), Num(1), Num(1), Num(1), Num(1), Num(0))
    /\ calls[2] = bezierCurveToCall(Num(1), Num(1), Num(0), Num(1), Num(0), Num(0))
    /\ lastCCP = CP(Num(0), Num(1))
    /\ currentX = Num(0) /\ currentY = Num(0)

-----------------------------------------------------------------------------
\* the letters of the texts that are no command letters
OtherLetters == {"X"}
\* text has an element that starts with a letter that is no command letter
HasUnknownLetter(text) == \E i \in 1..Len(text) : text[i] \in OtherLetters

\* C18: svgpath fails with the "Bad path" error whenever its text has an
\* element whose letter is no command letter, also when other elements of
\* the text are recognizable, as in "M0 0 X5 5 L1 1".
C18_UnknownLetterFails ==
    \A text \in PathTexts :
        HasUnknownLetter(text) => svgpath(Begin, text).err = BadPath

\* What the code does with "M0 0 X5 5 L1 1": the match skips "X5 5 " and the
\* call is the call with "M0 0 L1 1"; it fails only when nothing is left.
C18_UnknownLetterSkipped ==
    /\ Outcome(svgpath(Begin, UnknownLetterText))
           = Outcome(svgpath(Begin, <<"M", "0", " ", "0", " ", "L", "1", " ", "1">>))
    /\ svgpath(Begin, UnknownLetterText).err = NoError
    /\ svgpath(Begin, UnknownLetterText).calls
           = <<moveToCall(Num(0), Num(0)), lineToCall(Num(1), Num(1))>>

-----------------------------------------------------------------------------
\* the texts without a command letter
NoElementTexts == {text \in PathTexts : \A i \in 1..Len(text) : text[i] \notin CmdLetters}

\* C19: svgpath with a text that has no recognizable element (the empty text,
\* or only characters that are no command letters) fails with the "Bad path"
\* error, emits nothing and leaves the path state as it was.
C19_NoElementIsBadPath ==
    \A text \in NoElementTexts :
        LET r == svgpath(Begin, text)
        IN  /\ r.err = BadPath
            /\ r.calls = <<>>
            /\ PathState(r) = PathState(Begin)

\* svgpath has failed on such a text after a command had set the path state
C19_Witness ==
    /\ err = BadPath /\ calls = <<>>
    /\ steps = 2 /\ lastCmd = "C"
    /\ currentX = Num(0) /\ ~Falsy(lastCCP)

-----------------------------------------------------------------------------
\* "M0 0 L10 0", the elements of PartialText before the one that fails
PartialDone == SubSeq(PartialText, 1, 11)

\* r is what done has left, with the error e thrown after it
FailedAfter(r, done, e) ==
    /\ r.err = e
    /\ r.calls = done.calls
    /\ PathState(r) = PathState(done)

\* C20: nothing is rolled back when a command fails part-way.  In every
\* state svgpath("M0 0 L10 0 L5") throws the argument error with
\* moveTo(0,0) and lineTo(10,0) emitted and the current point at (10,0),
\* which is all that svgpath("M0 0 L10 0") does; M(0,0,5) throws it with
\* moveTo(0,0) emitted and the current point and the subpath start at
\* (0,0), which is all that M(0,0) does, as for every M with an odd number
\* of arguments above 2: the move of its first pair stays.
C20_NoRollback ==
    /\ LET r == svgpath(Begin, PartialText)
       IN  /\ FailedAfter(r, svgpath(Begin, PartialDone), WrongArgs)
           /\ r.calls = <<moveToCall(Num(0), Num(0)), lineToCall(Num(10), Num(0))>>
           /\ r.currentX = Num(10) /\ r.currentY = Num(0)
    /\ LET r == M(Begin, <<Num(0), Num(0), Num(5)>>)
       IN  /\ FailedAfter(r, M(Begin, <<Num(0), Num(0)>>), WrongArgs)
           /\ r.calls = <<moveToCall(Num(0), Num(0))>>
           /\ r.currentX = Num(0) /\ r.currentY = Num(0)
           /\ r.startSubpathX = Num(0) /\ r.startSubpathY = Num(0)
    /\ \A args \in {ArgsOfLen(3), ArgsOfLen(5)} :
           FailedAfter(M(Begin, args), M(Begin, SubSeq(args, 1, 2)), WrongArgs)

\* svgpath has failed on its third element after a state in which the
\* current point was elsewhere
C20_Witness ==
    /\ err = WrongArgs /\ steps = 2
    /\ calls = <<moveToCall(Num(0), Num(0)), lineToCall(Num(10), Num(0))>>
    /\ currentX = Num(10) /\ currentY = Num(0)
    /\ startSubpathX = Num(0) /\ startSubpathY = Num(0)
    /\ lastCmd = "L" /\ lastDone = "L"

-----------------------------------------------------------------------------
\* the object after each of the five transformations, its calls put aside
Transformed(self) ==
    LET matrix == <<Num(1), Num(0), Num(0), Num(1), Num(1), Num(1)>>
    IN  {[r EXCEPT !.calls = <<>>] :
            r \in {translate(self, <<Num(1), Num(1)>>), scale(self, <<Num(1), Num(1)>>),
                   rotate(self, <<Num(1)>>), transform(self, matrix),
                   setTransform(self, matrix)}}

\* the object after an absolute moveTo or lineTo to p, its calls put aside
Established(self, p) ==
    {[r EXCEPT !.calls = <<>>] : r \in {M(self, p), L(self, p)}}

\* a point to move to, and the relative commands with the relative move
Somewhere == <<Num(1), Num(2)>>
AllRelative == RelativeCmds \cup {"m"}

NoPoint(r) ==
    /\ r.currentX = Undefined /\ r.currentY = Undefined
    /\ r.startSubpathX = Undefined /\ r.startSubpathY = Undefined

\* every relative command with one group of arguments fails, or every one
\* returns normally
AllRelativeFail(r) ==
    \A cmd \in AllRelative : \A args \in OneGroup(cmd) :
        Apply(r, cmd, args).err # NoError
AllRelativeSucceed(r) ==
    \A cmd \in AllRelative : \A args \in OneGroup(cmd) :
        Apply(r, cmd, args).err = NoError

\* a closePath after a transformation that followed the move to p leaves no
\* current point, and every relative command fails
ClosedAfterTransform(self, p) ==
    \A r \in Transformed(M(self, p)) :
        LET closed == [z(r) EXCEPT !.calls = <<>>]
        IN  closed.currentX = Undefined /\ AllRelativeFail(closed)

-----------------------------------------------------------------------------
(***************************************************************************)
(* C22: The elliptical-arc commands A and a always read their rotation in  *)
(* degrees: called in the same state with the same arguments they emit the *)
(* same calls, leave the same path state and throw the same error whether  *)
(* the angle unit is degrees or radians, and they leave the angle unit and *)
(* the angle-unit stack as they found them.                                *)
(***************************************************************************)
UseDegreesValues == {"true", "false", "undefined"}

In(self, unit) == [self EXCEPT !.useDegrees = unit]

ArcCmds == {"A", "a"}

C22_ArcAlwaysDegrees ==
    \A cmd \in ArcCmds : \A args \in TurnedArcLists \cup ArcLists :
        /\ \A unit \in UseDegreesValues :
              /\ Outcome(Apply(In(Begin, unit), cmd, args))
                     = Outcome(Apply(In(Begin, "false"), cmd, args))
              /\ Apply(In(Begin, unit), cmd, args).useDegrees = unit
        /\ Apply(Begin, cmd, args).angleUnitStack = Begin.angleUnitStack

\* an arc with a rotation has been drawn while the angle unit is degrees
C22_Witness ==
    /\ useDegrees = "true" /\ lastCmd = "A" /\ err = NoError
    /\ \E i \in 1..Len(calls) : calls[i][1] = "rotate"
    /\ steps = 3

-----------------------------------------------------------------------------
(***************************************************************************)
(* C23: Called with a current point, with radii that are not zero and an   *)
(* endpoint other than the current point, A computes a center              *)
(* parameterization that ends at the requested endpoint: it throws nothing *)
(* and the current point after it is the endpoint (x, y) of its arguments, *)
(* as evaluated from the center and the angles, a float near it.           *)
(***************************************************************************)
NonDegenerate(self, args) ==
    /\ self.currentX.k \in {"num", "double"} /\ self.currentY.k \in {"num", "double"}
    /\ Arg(args, 0) # Num(0) /\ Arg(args, 1) # Num(0)
    /\ <<self.currentX, self.currentY>> # <<Arg(args, 5), Arg(args, 6)>>

C23_ArcEndsAtEndpoint ==
    \A args \in DecimalArcLists :
        NonDegenerate(Begin, args) =>
            \E r \in {A(Begin, args)} :
                /\ r.err = NoError
                /\ r.currentX = Near(Arg(args, 5))
                /\ r.currentY = Near(Arg(args, 6))

-----------------------------------------------------------------------------
(***************************************************************************)
(* C24: In any properly nested sequence of save() and restore() calls with *)
(* assignments of the angle unit in between, the angle unit after each     *)
(* restore() is the one it had when the matching save() was called, and    *)
(* the depth of the angle-unit stack grows by the number of saves not yet  *)
(* restored.                                                               *)
(***************************************************************************)
MaxNest == 4

NestOps == {"save", "restore", "degrees", "radians"}

\* one call of the sequence
Step(self, op) ==
    IF op = "save" THEN save(self)
    ELSE IF op = "restore" THEN restore(self)
    ELSE set(self, <<Str("angleUnit"), Str(op)>>)

\* the calls ops[i], ..., ops[Len(ops)] made one after the other
RECURSIVE Run(_, _, _)
Run(self, ops, i) ==
    IF i > Len(ops) THEN self ELSE Run(Step(self, ops[i]), ops, i + 1)

\* saves less restores among the first n calls
Open(ops, n) ==
    Cardinality({i \in 1..n : ops[i] = "save"})
        - Cardinality({i \in 1..n : ops[i] = "restore"})

\* no restore without a save before it that is not yet restored
ProperlyNested(ops) == \A n \in 1..Len(ops) : Open(ops, n) >= 0

\* the save that the restore at the end of ops matches
MatchingSave(ops) ==
    CHOOSE j \in 1..Len(ops) :
        /\ ops[j] = "save"
        /\ Open(ops, j) = Open(ops, Len(ops)) + 1
        /\ \A i \in j..(Len(ops) - 1) : Open(ops, i) >= Open(ops, j)

NestedSequences ==
    {ops \in UNION {[1..n -> NestOps] : n \in 1..MaxNest} : ProperlyNested(ops)}

C24_RestoreMatchesSave ==
    \A ops \in NestedSequences :
        \E r \in {Run(Begin, ops, 1)} :
            /\ r.err = NoError
            /\ Len(r.angleUnitStack) = Len(Begin.angleUnitStack) + Open(ops, Len(ops))
            /\ ops[Len(ops)] = "restore" =>
                  angleUnit(r) = angleUnit(Run(Begin, SubSeq(ops, 1, MatchingSave(ops) - 1), 1))

\* save, degrees, save, radians, restore: the unit is degrees again and one
\* save is not yet restored
C24_Witness ==
    /\ steps = 5 /\ useDegrees = "true" /\ angleUnitStack = <<"false">>
    /\ calls = <<<<"restore">>>>

-----------------------------------------------------------------------------
(***************************************************************************)
(* C25: In every state revert() does what restore() followed at once by    *)
(* save() does: the two leave the same angle unit and the same angle-unit  *)
(* stack, content and depth, and make the same calls, restore and then     *)
(* save, of the context.                                                   *)
(***************************************************************************)
RestoreThenSave(self) == save(restore(self))

C25_RevertIsRestoreThenSave ==
    \E r \in {revert(Begin)}, rs \in {RestoreThenSave(Begin)} :
        /\ r.useDegrees = rs.useDegrees
        /\ r.angleUnitStack = rs.angleUnitStack
        /\ r.calls = rs.calls
        /\ r.calls = <<<<"restore">>, <<"save">>>>

-----------------------------------------------------------------------------
(***************************************************************************)
(* C26: stroke, fill, paint, fillRect, strokeRect, paintRect, fillText and *)
(* strokeText called with attribute arguments use the attributes for that  *)
(* one operation only: after the call the attributes that set() assigns,   *)
(* the line width of the context and the angle unit of the canto, have the *)
(* values they had before the call.                                        *)
(***************************************************************************)
DrawingMethods ==
    {"stroke", "fill", "paint", "fillRect", "strokeRect", "paintRect",
     "fillText", "strokeText"}

\* the method called with its own arguments and then the attribute arguments
Draw(self, method, attrs) ==
    CASE method = "stroke" -> stroke(self, attrs)
      [] method = "fill" -> fill(self, attrs)
      [] method = "paint" -> paint(self, attrs)
      [] method = "fillRect" -> fillRect(self, RectArgs \o attrs)
      [] method = "strokeRect" -> strokeRect(self, RectArgs \o attrs)
      [] method = "paintRect" -> paintRect(self, RectArgs \o attrs)
      [] method = "fillText" -> fillText(self, <<Str("text"), Num(0), Num(0)>> \o attrs)
      [] method = "strokeText" -> strokeText(self, <<Str("text"), Num(0), Num(0)>> \o attrs)

C26_AttributesForOneOperation ==
    \A method \in DrawingMethods : \A attrs \in AttrLists :
        \E r \in {Draw(Begin, method, attrs)} :
            /\ r.lineWidth = Begin.lineWidth
            /\ angleUnit(r) = angleUnit(Begin)

-----------------------------------------------------------------------------
(***************************************************************************)
(* C27: After reset() the session state (current point, start of the       *)
(* subpath, both control points, empty-path flag, angle unit, angle-unit   *)
(* stack, pen state and orientation) is that of a newly constructed        *)
(* session, and every path command called next throws or emits and leaves  *)
(* the path state exactly as it does right after construction.             *)
(***************************************************************************)
\* the object as new Canto(canvas) leaves it
NewSession ==
    [Begin EXCEPT !.currentX = Undefined, !.currentY = Undefined,
                  !.startSubpathX = Undefined, !.startSubpathY = Undefined,
                  !.lastCCP = CPUndefined, !.lastQCP = CPUndefined,
                  !.pathIsEmpty = "undefined",
                  !.useDegrees = "false", !.angleUnitStack = <<>>,
                  !.penup = TRUE, !.orientation = StraightUp,
                  !.lineWidth = DefaultLineWidth, !.saved = <<>>]

SessionState(r) ==
    <<PathState(r), r.useDegrees, r.angleUnitStack, r.penup, r.orientation>>

C27_ResetIsNewSession ==
    \E r \in {reset(Begin)} :
        /\ r.err = NoError
        /\ SessionState(r) = SessionState(NewSession)
        /\ \A cmd \in CmdLetters : \A args \in ArgsOf(cmd) :
              Outcome(Apply(r, cmd, args)) = Outcome(Apply(NewSession, cmd, args))

-----------------------------------------------------------------------------
(***************************************************************************)
(* C28: Every method of the canto that has no other value to return        *)
(* returns the canto itself, so that calls can be chained: whenever a call *)
(* of set, of a method that draws, of drawImage or of reset has not        *)
(* thrown, what it returned is the canto.                                  *)
(***************************************************************************)
C28_MethodsReturnThis == err = NoError => returned = This

-----------------------------------------------------------------------------
(***************************************************************************)
(* C29: right(a) turns the turtle clockwise by a and left(a) anticlockwise *)
(* by a: for every orientation and every angle, right(a) followed by       *)
(* left(a), and left(a) followed by right(a), leave the turtle heading as  *)
(* it did, whole turns apart at most, and left(a) turns it by as much as   *)
(* right(a) the other way.                                                 *)
(***************************************************************************)
\* the same direction: whole turns apart
SameDirection(o1, o2) ==
    /\ o1.k = "angle" /\ o2.k = "angle"
    /\ o1.rad = o2.rad
    /\ (o1.deg - o2.deg) % 360 = 0

\* from o the turtle is at o1 after a turn and at o2 after the opposite one
Opposite(o, o1, o2) ==
    /\ o1.k = "angle" /\ o2.k = "angle"
    /\ (o1.rad - o.rad) = (o.rad - o2.rad)
    /\ ((o1.deg - o.deg) + (o2.deg - o.deg)) % 360 = 0

C29_LeftUndoesRight ==
    \A x \in TurnAngles :
        /\ SameDirection(lt(rt(Begin, x), x).orientation, Begin.orientation)
        /\ SameDirection(rt(lt(Begin, x), x).orientation, Begin.orientation)
        /\ Opposite(Begin.orientation, rt(Begin, x).orientation, lt(Begin, x).orientation)

-----------------------------------------------------------------------------
(***************************************************************************)
(* C30: beginPath makes one call, beginPath, of the context and begins the *)
(* path state anew: afterwards the current point and the start of the      *)
(* subpath are undefined, neither control point is set and the path is     *)
(* flagged empty, while the angle unit, the angle-unit stack, the pen      *)
(* state and the orientation are as they were.                             *)
(***************************************************************************)
C30_BeginPathKeepsFrame ==
    \E r \in {beginPath(Begin)} :
        /\ r.err = NoError
        /\ r.calls = <<<<"beginPath">>>>
        /\ NoPoint(r)
        /\ r.lastCCP = CPNull /\ r.lastQCP = CPNull
        /\ r.pathIsEmpty = "true"
        /\ r.useDegrees = Begin.useDegrees
        /\ r.angleUnitStack = Begin.angleUnitStack
        /\ r.penup = Begin.penup
        /\ r.orientation = Begin.orientation

\* the path has been begun anew with the unit set to degrees and saved, the
\* pen down and the turtle turned
C30_Witness ==
    /\ lastCmd = "beginPath" /\ pathIsEmpty = "true" /\ currentX = Undefined
    /\ useDegrees = "true" /\ angleUnitStack # <<>>
    /\ ~penup /\ orientation # StraightUp
    /\ steps = 5

-----------------------------------------------------------------------------
(***************************************************************************)
(* C31: Whenever T or t can run (a quadratic control point is recorded and *)
(* the current point is defined), every quadraticCurveTo it emits has the  *)
(* control point 2*P - K, P the start point of the group and K the control *)
(* point of the previous quadratic segment, and ends at the pair of the    *)
(* group, for t an offset from P; afterwards lastQCP is the reflected      *)
(* control point of the last group and the current point its endpoint.     *)
(* The points are no floats left by the trigonometry of arcTo, arc,        *)
(* ellipse or rect, on which 2*P - K and P + (P - K) may round             *)
(* differently.                                                            *)
(***************************************************************************)
SmoothQuadraticAsSpecified(r, args, rel) ==
    LET n == Len(args) \div 2
        End(g, x0, y0) ==
            IF rel THEN <<Add(x0, args[2 * g - 1]), Add(y0, args[2 * g])>>
            ELSE <<args[2 * g - 1], args[2 * g]>>
        P[g \in 1..(n + 1)] ==
            IF g = 1 THEN <<currentX, currentY>>
            ELSE End(g - 1, P[g - 1][1], P[g - 1][2])
        K[g \in 1..(n + 1)] ==
            IF g = 1 THEN <<lastQCP.x, lastQCP.y>>
            ELSE <<Reflect(P[g - 1][1], K[g - 1][1]), Reflect(P[g - 1][2], K[g - 1][2])>>
    IN  /\ r.err = NoError
        /\ r.calls = [g \in 1..n |->
                         quadraticCurveToCall(K[g + 1][1], K[g + 1][2],
                                              P[g + 1][1], P[g + 1][2])]
        /\ r.lastQCP = CP(K[n + 1][1], K[n + 1][2])
        /\ r.currentX = P[n + 1][1] /\ r.currentY = P[n + 1][2]

C31_SmoothQuadraticReflects ==
    (~Falsy(lastQCP) /\ currentX # Undefined
        /\ currentX.k # "float" /\ currentY.k # "float"
        /\ lastQCP.x.k # "float" /\ lastQCP.y.k # "float") =>
        \A args \in ValidLists("T") :
            /\ SmoothQuadraticAsSpecified(T(Begin, args), args, FALSE)
            /\ SmoothQuadraticAsSpecified(t(Begin, args), args, TRUE)

\* Q(0,1,1,1,1,0,0,0) and then T(1,0,0,1) have run: two groups, the second
\* reflecting the control point of the first
C31_Witness ==
    /\ err = NoError /\ lastCmd = "T" /\ steps = 2
    /\ calls = <<quadraticCurveToCall(Num(-1), Num(0), Num(1), Num(0)),
                 quadraticCurveToCall(Num(3), Num(0), Num(0), Num(1))>>
    /\ lastQCP = CP(Num(3), Num(0))

-----------------------------------------------------------------------------
-----------------------------------------------------------------------------
(***************************************************************************)
(* C32: In A, when lambda > 1 both radii are multiplied by the same factor *)
(* sqrt(lambda), so that their ratio is kept and neither radius is         *)
(* decreased, and the center is                                            *)
(* exactly the midpoint of the start point and the endpoint; when lambda   *)
(* is not greater than 1, the radii passed to the arc primitive are |rx|   *)
(* and |ry| unchanged.  ellipse() passes the center to translate(), the    *)
(* ratio rx/ry to scale() and ry to arc().                                 *)
(***************************************************************************)
\* the calls that ellipse() makes for the radii rx and ry of r and the
\* center it is given, which A computes when it corrects the radii
RadiiPassed(made, r, center) ==
    LET n == Len(made)
    IN  /\ n >= 7
        /\ made[n - 4] = <<"scale", Value(Over(r[1], r[2])), Num(1)>>
        /\ made[n - 3][1] = "arc" /\ made[n - 3][4] = Value(r[2])
        /\ center # <<>> =>
               made[n - 6] = <<"translate", Value(center[1]), Value(center[2])>>

ArcAsSpecified(self, args) ==
    LET x1 == AsDouble(self.currentX)
        y1 == AsDouble(self.currentY)
        x2 == AsDouble(Arg(args, 5))
        y2 == AsDouble(Arg(args, 6))
        rx == AsDouble(abs(Arg(args, 0)))
        ry == AsDouble(abs(Arg(args, 1)))
    IN  \E lambda \in {Lambda(Over(Plus(x1, Negated(x2)), DoubleOf(2)),
                              Over(Plus(y1, Negated(y2)), DoubleOf(2)), rx, ry)},
           r \in {A(self, args)} :
            /\ r.err = NoError
            /\ IF Greater(lambda, DoubleOf(1))
               THEN \E factor \in {Sqrt(lambda)} :
                       /\ ~Greater(rx, Times(rx, factor))
                       /\ ~Greater(ry, Times(ry, factor))
                       /\ Over(Times(rx, factor), Times(ry, factor)) = Over(rx, ry)
                       /\ RadiiPassed(r.calls,
                                      <<Times(rx, factor), Times(ry, factor)>>,
                                      <<Over(Plus(x1, x2), DoubleOf(2)),
                                        Over(Plus(y1, y2), DoubleOf(2))>>)
               ELSE RadiiPassed(r.calls, <<rx, ry>>, <<>>)

C32_RadiiCorrectedTogether ==
    \A args \in DecimalArcLists :
        /\ NonDegenerate(Begin, args)
        /\ Computable(<<Begin.currentX, Begin.currentY, Arg(args, 5), Arg(args, 6),
                        Arg(args, 0), Arg(args, 1)>>, Arg(args, 2))
        => ArcAsSpecified(Begin, args)

\* A(0.5, 0.3, 0, 0, 1, 1.6, 3) was called at (0, 0): the arc it draws is
\* centered at (0.8, 1.5)
C32_Witness ==
    /\ Len(calls) >= 7
    /\ calls[Len(calls) - 6] = <<"translate", Decimal(8), Decimal(15)>>
    /\ calls[Len(calls) - 3][1] = "arc"
    /\ calls[Len(calls) - 3][4].k = "double"
    /\ currentX = Near(Decimal(16))

-----------------------------------------------------------------------------
-----------------------------------------------------------------------------
(***************************************************************************)
(* C33: C(cx1, cy1, cx2, cy2, x, y) called on an empty path, after         *)
(* beginPath(), emits moveTo(cx1, cy1) before the bezierCurveTo and leaves *)
(* the subpath start at (cx1, cy1), as Q opens the subpath at (cx, cy) and *)
(* L at (x, y).                                                            *)
(***************************************************************************)
\* cmd called with args on the empty path opens the subpath at its first
\* two arguments and then emits its primitive
OpensAtFirstPoint(self, cmd, args, primitive) ==
    \E r \in {Apply(self, cmd, args)} :
        /\ r.err = NoError
        /\ Len(r.calls) >= 2
        /\ r.calls[1] = moveToCall(Arg(args, 0), Arg(args, 1))
        /\ r.calls[2][1] = primitive
        /\ r.startSubpathX = Arg(args, 0)
        /\ r.startSubpathY = Arg(args, 1)

C33_CubicOpensAtFirstControl ==
    pathIsEmpty = "true" =>
        /\ \A args \in ValidLists("C") : OpensAtFirstPoint(Begin, "C", args, "bezierCurveTo")
        /\ \A args \in ValidLists("Q") : OpensAtFirstPoint(Begin, "Q", args, "quadraticCurveTo")
        /\ \A args \in ValidLists("L") : OpensAtFirstPoint(Begin, "L", args, "lineTo")

\* the part of the statement about Q and L
C33_OthersOpenAtFirstPoint ==
    pathIsEmpty = "true" =>
        /\ \A args \in ValidLists("Q") : OpensAtFirstPoint(Begin, "Q", args, "quadraticCurveTo")
        /\ \A args \in ValidLists("L") : OpensAtFirstPoint(Begin, "L", args, "lineTo")

-----------------------------------------------------------------------------
-----------------------------------------------------------------------------
(***************************************************************************)
(* C34: The relative commands l, c and q called with several groups chain  *)
(* them: every coordinate of a group is an offset from the point reached   *)
(* by the group before it (the current point for the first group), and the *)
(* current point the call leaves is the initial one plus the sum of the    *)
(* endpoint offsets.                                                       *)
(***************************************************************************)
ChainedCmds == {"l", "c", "q"}

PrimitiveOf(cmd) ==
    CASE cmd = "l" -> "lineTo" [] cmd = "c" -> "bezierCurveTo"
      [] cmd = "q" -> "quadraticCurveTo"

\* the point reached after g groups of args from p0 on one axis, 0 for x
\* and 1 for y: p0 plus the endpoint offsets of the groups 1..g
RECURSIVE ReachedAfter(_, _, _, _, _)
ReachedAfter(cmd, args, g, p0, axis) ==
    IF g = 0 THEN p0
    ELSE Add(ReachedAfter(cmd, args, g - 1, p0, axis),
             Arg(args, g * GroupSize(cmd) - 2 + axis))

\* the primitive of group g: each of its coordinates is the offset given,
\* added to the point reached after g - 1 groups
ChainedCall(cmd, args, g, x0, y0) ==
    <<PrimitiveOf(cmd)>> \o
    [j \in 1..GroupSize(cmd) |->
        Add(ReachedAfter(cmd, args, g - 1, IF j % 2 = 1 THEN x0 ELSE y0, (j + 1) % 2),
            Arg(args, (g - 1) * GroupSize(cmd) + j - 1))]

RelativeChains(self, cmd, args) ==
    LET n == Len(args) \div GroupSize(cmd)
    IN  \E r \in {Apply(self, cmd, args)} :
            /\ r.err = NoError
            /\ Len(r.calls) = n
            /\ \A g \in 1..n :
                   r.calls[g] = ChainedCall(cmd, args, g, self.currentX, self.currentY)
            /\ r.currentX = ReachedAfter(cmd, args, n, self.currentX, 0)
            /\ r.currentY = ReachedAfter(cmd, args, n, self.currentY, 1)

C34_RelativeGroupsChain ==
    currentX # Undefined =>
        \A cmd \in ChainedCmds : \A args \in ValidLists(cmd) :
            RelativeChains(Begin, cmd, args)

\* l(1, 0, 0, 1) was called at (1, 0)
C34_Witness ==
    /\ lastCmd = "l"
    /\ calls = <<lineToCall(Num(2), Num(0)), lineToCall(Num(2), Num(1))>>
    /\ currentX = Num(2) /\ currentY = Num(1)

-----------------------------------------------------------------------------
-----------------------------------------------------------------------------
(***************************************************************************)
(* C35: Whenever one of L, l, H, V, h, v, C, c, Q, q, S, s, T, t, A and a  *)
(* raises an error, it has emitted no primitive, and the current point,    *)
(* the subpath start, both control points, the empty-path flag and the     *)
(* angle unit are as they were before the call.                            *)
(***************************************************************************)
AtomicCmds == {"L", "l", "H", "V", "h", "v", "C", "c", "Q", "q",
               "S", "s", "T", "t", "A", "a"}

FailsWithoutEffect(self, cmd, args) ==
    \E r \in {Apply(self, cmd, args)} :
        r.err # NoError =>
            /\ r.calls = self.calls
            /\ PathState(r) = PathState(self)
            /\ r.useDegrees = self.useDegrees

C35_FailureLeavesNoTrace ==
    \A cmd \in AtomicCmds : \A args \in ArgsOf(cmd) :
        FailsWithoutEffect(Begin, cmd, args)

\* s(0, 0, 1, 0) has failed at (1, 0), where M(1, 0) had left no cubic
\* control point: nothing was emitted and the point is as it was
C35_Witness ==
    /\ lastCmd = "s" /\ err = NoSmooth
    /\ calls = <<>>
    /\ currentX = Num(1) /\ currentY = Num(0)
    /\ startSubpathX = Num(1) /\ startSubpathY = Num(0)
    /\ lastCCP = CPNull /\ lastQCP = CPNull
    /\ pathIsEmpty = "false"

-----------------------------------------------------------------------------
-----------------------------------------------------------------------------
(***************************************************************************)
(* C36: Whenever the current point is defined, the subpath start is        *)
(* defined too, also on a path started by a line or curve command and on a *)
(* path continued after a transformation.                                  *)
(***************************************************************************)
C36_StartDefinedWithCurrent ==
    currentX # Undefined /\ currentY # Undefined =>
        startSubpathX # Undefined /\ startSubpathY # Undefined

\* The same for the paths on which every line or curve command follows a
\* move or a beginPath: a move was made and no transformation followed it
C36_AfterMoveOrBeginPath ==
    pathIsEmpty = "true" \/ (startSubpathX # Undefined /\ startSubpathY # Undefined) =>
        \A cmd \in CmdLetters : \A args \in ArgsOf(cmd) :
            \E r \in {Apply(Begin, cmd, args)} :
                r.currentX # Undefined /\ r.currentY # Undefined =>
                    r.startSubpathX # Undefined /\ r.startSubpathY # Undefined

-----------------------------------------------------------------------------
-----------------------------------------------------------------------------
(***************************************************************************)
(* C37: The depth of the angle-unit stack equals the depth of the save     *)
(* stack of the context after any sequence of save(), restore(), revert()  *)
(* and reset(), also when restore() or revert() is called with nothing     *)
(* saved.                                                                  *)
(***************************************************************************)
SameDepth(r) == Len(r.angleUnitStack) = Len(r.saved)

StackOps == {"save", "restore", "revert", "reset"}

StackOp(self, op) ==
    CASE op = "save" -> save(self)
      [] op = "restore" -> restore(self)
      [] op = "revert" -> revert(self)
      [] op = "reset" -> reset(self)

\* the depths are equal at first, and each of the four calls keeps them equal
C37_StacksSameDepth ==
    /\ SameDepth(Begin)
    /\ \A op \in StackOps : SameDepth(StackOp(Begin, op))

\* each of the four calls keeps equal depths equal, but for revert() with
\* nothing saved
C37_ExceptRevertOnEmpty ==
    SameDepth(Begin) =>
        \A op \in StackOps :
            \/ op = "revert" /\ angleUnitStack = <<>>
            \/ SameDepth(StackOp(Begin, op))

-----------------------------------------------------------------------------
-----------------------------------------------------------------------------
(***************************************************************************)
(* C38: Every save() of the context issued by a drawing helper that is     *)
(* given attribute arguments, drawImage included, is matched by exactly    *)
(* one restore() of the context before the helper returns or throws, also  *)
(* when set() throws.                                                      *)
(***************************************************************************)
\* how many of the calls made are calls of name
Count(made, name) == Cardinality({i \in 1..Len(made) : made[i][1] = name})

\* one save and one restore were issued, and the context's save stack is as
\* deep as before
SaveMatched(self, r) ==
    /\ Count(r.calls, "save") = 1
    /\ Count(r.calls, "restore") = 1
    /\ Len(r.saved) = Len(self.saved)

C38_HelperRestoresWhatItSaves ==
    \A attrs \in AttrLists :
        /\ \A method \in DrawingMethods : SaveMatched(Begin, Draw(Begin, method, attrs))
        /\ SaveMatched(Begin, drawImage(Begin, ImageArgs \o attrs))

\* the same for the helpers that return
C38_WhenHelperReturns ==
    \A attrs \in AttrLists :
        /\ \A method \in DrawingMethods :
               \E r \in {Draw(Begin, method, attrs)} :
                   r.err = NoError => SaveMatched(Begin, r)
        /\ \E r \in {drawImage(Begin, ImageArgs \o attrs)} :
               r.err = NoError => SaveMatched(Begin, r)

-----------------------------------------------------------------------------
-----------------------------------------------------------------------------
(***************************************************************************)
(* C39: When the path is not empty, the commands that are no moves, L, l,  *)
(* H, V, h, v, C, c, Q, q, S, s, T, t, A and a, and closePath never change *)
(* the subpath start.                                                      *)
(***************************************************************************)
NonMoveCmds == AtomicCmds \cup {"z", "Z"}

KeepsSubpathStart(self, cmd, args) ==
    \E r \in {Apply(self, cmd, args)} :
        /\ r.startSubpathX = self.startSubpathX
        /\ r.startSubpathY = self.startSubpathY

C39_NonMovesKeepSubpathStart ==
    pathIsEmpty # "true" =>
        \A cmd \in NonMoveCmds : \A args \in ArgsOf(cmd) :
            KeepsSubpathStart(Begin, cmd, args)

\* L(0, 1) was called after M(1, 0): the subpath start is still (1, 0)
C39_Witness ==
    /\ lastCmd = "L" /\ err = NoError
    /\ calls = <<lineToCall(Num(0), Num(1))>>
    /\ currentX = Num(0) /\ currentY = Num(1)
    /\ startSubpathX = Num(1) /\ startSubpathY = Num(0)

-----------------------------------------------------------------------------
-----------------------------------------------------------------------------
(***************************************************************************)
(* C40: The last cubic control point and the last quadratic control point  *)
(* are never both defined at the same time.                                *)
(***************************************************************************)
OneControlAtMost(r) == Falsy(r.lastCCP) \/ Falsy(r.lastQCP)

\* in every state, and after every path command called in it
C40_NeverBothControls ==
    /\ OneControlAtMost(Begin)
    /\ \A cmd \in CmdLetters : \A args \in ArgsOf(cmd) :
           OneControlAtMost(Apply(Begin, cmd, args))

\* a cubic control point is recorded, and Q called now records a quadratic
\* one
C40_Witness ==
    /\ lastCCP = CP(Num(0), Num(1))
    /\ lastCmd = "C"
    /\ Q(Begin, <<Num(1), Num(0), Num(0), Num(1)>>).lastQCP = CP(Num(1), Num(0))

====
